---- MODULE Spec2Model ----
(***************************************************************************)
(* R-Lake CSV ingestion: CSVProcessor.process_csv and its callers          *)
(* (upload_csv, DatasetViewSet.run_job, RawDataFileViewSet.process), the   *)
(* catalog signals fired by the saves, and the pure helpers they use.      *)
(*                                                                         *)
(* The database is modelled as a committed store `db` and the working      *)
(* store `tx` of the request in progress.  transaction.atomic copies       *)
(* nothing on entry; writes go to `tx`; a normal exit of the outermost     *)
(* atomic block publishes `tx` as `db`, an exceptional exit discards it.   *)
(***************************************************************************)
EXTENDS Integers, Sequences, FiniteSets, TLC

(* ---------------------------- bounds ---------------------------------- *)
MaxDatasets == 2
MaxRuns == 2
MaxKeys == 2
MaxOrmOps == 5
MaxReports == 2
MaxRules == 2
MaxConcRuns == 3

DsIds == 1..MaxDatasets
\* every flow of the program that creates a dataset creates its raw file with it
RfIds == DsIds

(* ---------------------------- values ---------------------------------- *)
\* A cell of the parsed DataFrame as row[col] yields it inside iterrows.
\* iterrows builds each row as one Series, so every cell of a frame has the
\* frame's common dtype: a frame with a float64 column yields numpy.float64
\* (a subclass of float, NaN where the file had nothing), a frame whose
\* columns are all int64 yields numpy.int64, which json.dumps rejects.
NaNCell == [kind |-> "nan", n |-> 0]
PyNone == [kind |-> "none", n |-> 0]
PyInt(n) == [kind |-> "int", n |-> n]
PyFloat(n) == [kind |-> "float", n |-> n]
NumpyInt(n) == [kind |-> "int64", n |-> n]

\* df.columns, df.index (the labels iterrows yields) and the rows.
Frame(cols, index, rows) == [columns |-> cols, index |-> index, rows |-> rows]

\* speed,rpm / 10,1000 / ,1200 / 10,1000
FileScenario ==
  Frame(<<"speed", "rpm">>, <<0, 1, 2>>,
        << <<PyFloat(10), PyFloat(1000)>>, <<NaNCell, PyFloat(1200)>>,
           <<PyFloat(10), PyFloat(1000)>> >>)
\* rpm / 1000 / 1200 : every column is int64
FileAllInt ==
  Frame(<<"rpm">>, <<0, 1>>, << <<NumpyInt(1000)>>, <<NumpyInt(1200)>> >>)
\* header only
FileEmpty == Frame(<<"rpm">>, <<>>, <<>>)
\* speed,rpm / 5,,1000 / 9,10,1200 : one field more than the header, so
\* read_csv takes the first field of each line as the index
FileIndexed ==
  Frame(<<"speed", "rpm">>, <<5, 9>>,
        << <<NaNCell, PyFloat(1000)>>, <<PyFloat(10), PyFloat(1200)>> >>)

Files == {FileScenario, FileAllInt, FileEmpty, FileIndexed}

(* ------------------------- sequence helpers ---------------------------- *)
Range(s) == {s[i] : i \in DOMAIN s}

(* ------------------------ generate_data_hash --------------------------- *)
\* Alphabetical position of a column name (str comparison of sort_keys).
KeyRank(k) ==
  CASE k = "rpm" -> 1
    [] k = "speed" -> 2
    [] k = "ts" -> 3
    [] OTHER -> 4

\* json.dumps of one value; None -> null.
JsonToken(v) ==
  CASE v.kind = "none" -> "null"
    [] v.kind = "int" -> ToString(v.n)
    [] v.kind = "float" -> ToString(v.n) \o ".0"
    [] v.kind = "str" -> "\"s" \o ToString(v.n) \o "\""
    [] OTHER -> "TypeError"

\* A dict is a sequence of <<key, value>> pairs in insertion order.
DictKeys(d) == {d[i][1] : i \in DOMAIN d}
DictGet(d, k) == (CHOOSE i \in DOMAIN d : d[i][1] = k)
Serializable(d) == \A i \in DOMAIN d : d[i][2].kind \in {"none", "int", "float", "str"}

\* the pairs of d in the order sort_keys=True emits them
SortedItems(d) ==
  [j \in 1..Len(d) |->
     LET i == CHOOSE i \in DOMAIN d :
                Cardinality({m \in DOMAIN d : KeyRank(d[m][1]) < KeyRank(d[i][1])}) = j - 1
     IN <<d[i][1], JsonToken(d[i][2])>>]

\* json.dumps without sort_keys: the pairs in insertion order
HashUnsorted(data) == [j \in 1..Len(data) |-> <<data[j][1], JsonToken(data[j][2])>>]

\* json.dumps(data, sort_keys=True) then sha256: the digest is identified
\* with the text it digests.
generate_data_hash(data) == SortedItems(data)

(* ------------------------ infer_column_types --------------------------- *)
Column(df, j) == [i \in 1..Len(df.rows) |-> df.rows[i][j]]
DropNa(series) == SelectSeq(series, LAMBDA v : v.kind # "nan")

\* dtype-driven inference on the column: a column of whole numbers is int64
\* unless it holds a NaN, which makes it float64; strings that are neither
\* numbers nor dates fall through.
InferType(series) ==
  LET nn == DropNa(series) IN
  IF Len(nn) = 0 THEN "STRING"
  ELSE IF \A i \in DOMAIN nn : nn[i].kind \in {"float", "int64"}
       THEN IF Len(nn) = Len(series) THEN "INTEGER" ELSE "FLOAT"
  ELSE IF \A i \in DOMAIN nn : nn[i].kind = "dt" THEN "DATETIME"
  ELSE "STRING"

\* dict column -> type, in df.columns order
infer_column_types(df) ==
  [j \in 1..Len(df.columns) |-> <<df.columns[j], InferType(Column(df, j))>>]

(* ------------------------ calculate_statistics ------------------------- *)
SetMin(S) == CHOOSE x \in S : \A y \in S : x <= y
SetMax(S) == CHOOSE x \in S : \A y \in S : x >= y

\* stats.get('min_value') etc.: an absent key is the empty sequence
calculate_statistics(df, j, column_type) ==
  LET series == DropNa(Column(df, j))
      nums == {series[i].n : i \in DOMAIN series}
      has == column_type \in {"INTEGER", "FLOAT"} /\ nums # {}
  IN [min_value |-> IF has THEN <<SetMin(nums)>> ELSE <<>>,
      max_value |-> IF has THEN <<SetMax(nums)>> ELSE <<>>,
      unique_count |-> Cardinality(Range(series))]

(* --------------------------- the row loop ------------------------------ *)
TypeOf(column_types, col) ==
  column_types[CHOOSE j \in DOMAIN column_types : column_types[j][1] = col][2]

\* lines 194-205: NaN -> None, DATETIME -> isoformat text, else as is
CellToData(v, column_type) ==
  IF v.kind = "nan" THEN PyNone
  ELSE IF column_type = "DATETIME" THEN [kind |-> "str", n |-> v.n]
  ELSE v

RowData(df, column_types, i) ==
  [j \in 1..Len(df.columns) |->
     <<df.columns[j], CellToData(df.rows[i][j], TypeOf(column_types, df.columns[j]))>>]

\* the loop with the error counter never incremented
RECURSIVE RowLoopUncounted(_, _, _, _)
RowLoopUncounted(df, column_types, run, i) ==
  IF i = 0 THEN [records_to_create |-> <<>>, error_count |-> 0, duplicate_count |-> 0]
  ELSE LET prev == RowLoopUncounted(df, column_types, run, i - 1)
           data == RowData(df, column_types, i)
       IN IF Serializable(data)
          THEN [prev EXCEPT !.records_to_create =
                  Append(@, [row_number |-> df.index[i] + 1, data |-> data,
                             data_hash |-> generate_data_hash(data), run |-> run])]
          ELSE prev

\* The state of the loop after the first i rows.
RECURSIVE RowLoop(_, _, _, _)
RowLoop(df, column_types, run, i) ==
  IF i = 0 THEN [records_to_create |-> <<>>, error_count |-> 0, duplicate_count |-> 0]
  ELSE LET prev == RowLoop(df, column_types, run, i - 1)
           data == RowData(df, column_types, i)
       IN IF Serializable(data)
          THEN [prev EXCEPT !.records_to_create =
                  Append(@, [row_number |-> df.index[i] + 1, data |-> data,
                             data_hash |-> generate_data_hash(data), run |-> run])]
          ELSE [prev EXCEPT !.error_count = @ + 1]

(* -------------------------- the database ------------------------------- *)
NoDataset == [exists |-> FALSE, total_rows |-> 0]
NoRawFile == [exists |-> FALSE, dataset |-> 0, processed |-> FALSE, processing_error |-> ""]
NoAsset == [exists |-> FALSE, record_count |-> 0, quality_score |-> <<>>]

\* the JobRun row of the latest run_job request (earlier rows never change)
NoJobRun == [status |-> "none", output_dataset |-> 0]

EmptyDb ==
  [datasets |-> [d \in DsIds |-> NoDataset],
   schema |-> [d \in DsIds |-> {}],
   records |-> [d \in DsIds |-> {}],
   reports |-> [d \in DsIds |-> <<>>],
   rawfiles |-> [r \in RfIds |-> NoRawFile],
   assets |-> [d \in DsIds |-> NoAsset],
   columns |-> [d \in DsIds |-> {}],
   snapshots |-> [d \in DsIds |-> <<>>],
   jobrun |-> NoJobRun]

NoLocal == [df |-> FileEmpty, column_types |-> <<>>, records_to_create |-> <<>>,
            error_count |-> 0, duplicate_count |-> 0, exc |-> "", at |-> ""]
NoCall == [caller |-> "none", ds |-> 0, rf |-> 0, run |-> 0, outcome |-> "none", error |-> "", at |-> ""]
NoResult == [success |-> FALSE, total_rows |-> 0, processed_rows |-> 0, error_rows |-> 0,
             duplicate_rows |-> 0, columns |-> <<>>, quality_score |-> 0]
NoPre == [schema |-> {}, records |-> {}, total_rows |-> 0, reports |-> <<>>, source |-> <<>>]
NoRawObject == [processed |-> FALSE, processing_error |-> ""]

\* two requests running process_csv at once, each in its own transaction
Procs == {1, 2}
IdleTxn == [pc |-> "idle", df |-> <<>>, run |-> 0, del_schema |-> {}, del_records |-> {},
            error |-> ""]
NoConc == [backend |-> "none", t |-> [p \in Procs |-> IdleTxn]]

\* the last HTTP response of the quality_report endpoint
\* no schema-statistics run, detector call, run_job request or multi-file upload yet
NoStats == [pc |-> "idle"]
NoProbe == [fn |-> "none"]
NoJob ==
  [pc |-> "idle", rows |-> <<>>,
   run |-> [status |-> "none", finished_at |-> FALSE, output_dataset |-> FALSE],
   seen |-> <<>>, response |-> 0]
NoBatch ==
  [pc |-> "idle", n |-> 0, use_preprocess |-> FALSE, idx |-> 0, committed |-> {},
   working |-> {}, outcomes |-> <<>>]
NoResponse == [status |-> 0, total_records |-> 0, quality_score |-> <<>>]

VARIABLES db, tx, disk, pc, call, local, result, pre, raw_file, ingested, hashIn, hashOut,
          response, ormOps, valIn, valOut, conc, statRun, probe, jobReq, upload

vars == <<db, tx, disk, pc, call, local, result, pre, raw_file, ingested, hashIn, hashOut,
          response, ormOps, valIn, valOut, conc, statRun, probe, jobReq, upload>>
\* the state of the schema-statistics, detector, run_job and multi-file specifications
extraVars == <<statRun, probe, jobReq, upload>>
\* `ingested` is a history variable: the frame whose ingestion produced the
\* committed contents of each dataset.  It is read by no action.
hashVars == <<hashIn, hashOut>>
catalogVars == <<response, ormOps>>
validatorVars == <<valIn, valOut>>
rest == <<ingested, hashIn, hashOut, response, ormOps, valIn, valOut, conc, extraVars>>

FreeDs(store) == {d \in DsIds : ~store.datasets[d].exists}
FreeRf(store) == {r \in RfIds : ~store.rawfiles[r].exists}
NextDs(store) == SetMin(FreeDs(store))
NextRf(store) == SetMin(FreeRf(store))

(* ------------------------------ signals -------------------------------- *)
\* post_save(Dataset): get_or_create the asset, else copy total_rows
ensure_catalog_asset(store, d) ==
  [store EXCEPT !.assets[d] =
     [@ EXCEPT !.exists = TRUE, !.record_count = store.datasets[d].total_rows]]

\* the asset lookups of the other two receivers: create it when missing
WithAsset(store, d) ==
  IF store.assets[d].exists THEN store
  ELSE [store EXCEPT !.assets[d] =
          [exists |-> TRUE, record_count |-> store.datasets[d].total_rows,
           quality_score |-> <<>>]]

\* the receiver with objects.create in place of update_or_create
SyncCreateOnly(store, d, field) ==
  LET s == WithAsset(store, d)
      col == [schema_field |-> <<field.run, field.column_order>>,
              name |-> field.column_name, data_type |-> field.column_type,
              is_nullable |-> field.is_nullable, stat_min |-> field.min_value,
              stat_max |-> field.max_value, stat_distinct |-> field.unique_count]
  IN [s EXCEPT !.columns[d] = @ \cup {col}]

\* post_save(DataSchema): update_or_create the catalog column of the field
sync_catalog_columns(store, d, field) ==
  LET s == WithAsset(store, d)
      col == [schema_field |-> <<field.run, field.column_order>>,
              name |-> field.column_name, data_type |-> field.column_type,
              is_nullable |-> field.is_nullable, stat_min |-> field.min_value,
              stat_max |-> field.max_value, stat_distinct |-> field.unique_count]
  IN [s EXCEPT !.columns[d] =
        {c \in @ : c.schema_field # col.schema_field} \cup {col}]

\* post_save(DataQualityReport, created): snapshot and asset update
create_metric_snapshot(store, d, report) ==
  LET s == WithAsset(store, d)
      total == report.total_records
      score == IF total # 0 THEN <<(report.valid_records * 100) \div total>> ELSE <<>>
      uniq == IF total # 0 THEN <<((total - report.duplicate_records) * 100) \div total>>
              ELSE <<>>
      snap == [total_records |-> total, valid_records |-> report.valid_records,
               invalid_records |-> report.invalid_records,
               duplicate_records |-> report.duplicate_records,
               uniqueness_percent |-> uniq, quality_score |-> score]
  IN [s EXCEPT !.snapshots[d] = Append(@, snap),
               !.assets[d] = [@ EXCEPT !.record_count = total, !.quality_score = score]]

(* --------------------------- initial state ----------------------------- *)
Init ==
  /\ db = EmptyDb
  /\ tx = EmptyDb
  /\ disk = [r \in RfIds |-> <<>>]
  /\ pc = "idle"
  /\ call = NoCall
  /\ local = NoLocal
  /\ result = NoResult
  /\ pre = NoPre
  /\ raw_file = NoRawObject
  /\ ingested = [d \in DsIds |-> <<>>]
  /\ hashIn = <<>>
  /\ hashOut = <<>>
  /\ response = NoResponse
  /\ ormOps = 0
  /\ valIn = <<>>
  /\ valOut = <<>>
  /\ conc = NoConc
  /\ statRun = NoStats
  /\ probe = NoProbe
  /\ jobReq = NoJob
  /\ upload = NoBatch

\* the number of committed ingestions: the next primary key / imported_at
RECURSIVE CountReports(_, _)
CountReports(store, d) ==
  IF d = 0 THEN 0 ELSE Len(store.reports[d]) + CountReports(store, d - 1)
Ingestions(store) == CountReports(store, MaxDatasets)

Snapshot(store, d) ==
  [schema |-> store.schema[d], records |-> store.records[d],
   total_rows |-> store.datasets[d].total_rows, reports |-> store.reports[d],
   source |-> ingested[d]]

NewDataset(store, d) ==
  ensure_catalog_asset([store EXCEPT !.datasets[d] = [exists |-> TRUE, total_rows |-> 0]], d)

NewRawFile(store, r, d) ==
  [store EXCEPT !.rawfiles[r] = [exists |-> TRUE, dataset |-> d, processed |-> FALSE,
                                 processing_error |-> ""]]

\* The bytes stored at raw_file.file.path are an input of the program: the
\* model fixes them when process_csv first reads the file.
NewFile(r) == [disk EXCEPT ![r] = <<>>]

\* entry into process_csv(raw_file, dataset) from `who`
Enter(who, store, r, d) ==
  /\ pc' = "detect"
  /\ call' = [caller |-> who, ds |-> d, rf |-> r, run |-> Ingestions(store) + 1, outcome |-> "running",
              error |-> "", at |-> ""]
  /\ local' = NoLocal
  /\ result' = NoResult
  /\ pre' = Snapshot(store, d)
  /\ raw_file' = [processed |-> store.rawfiles[r].processed,
                  processing_error |-> store.rawfiles[r].processing_error]

(* ------------------- requests that do not ingest ----------------------- *)
\* Dataset.objects.create and RawDataFile.objects.create in autocommit mode
CreateDataset ==
  /\ pc = "idle"
  /\ FreeDs(db) # {} /\ FreeRf(db) # {}
  /\ LET d == NextDs(db)
         r == NextRf(db)
     IN /\ db' = NewRawFile(NewDataset(db, d), r, d)
        /\ disk' = NewFile(r)
  /\ tx' = db'
  /\ UNCHANGED <<pc, call, local, result, pre, raw_file, rest>>

\* the stored file of a raw file is replaced by another upload
ReplaceFile ==
  /\ pc = "idle"
  /\ \E r \in RfIds :
       /\ db.rawfiles[r].exists
       /\ disk[r] # <<>>
       /\ disk' = NewFile(r)
  /\ UNCHANGED <<db, tx, pc, call, local, result, pre, raw_file, rest>>

(* ----------------------- the three callers ----------------------------- *)
\* RawDataFileViewSet.process: re-ingest a stored raw file into its dataset
ProcessRequest ==
  /\ pc = "idle"
  /\ Ingestions(db) < MaxRuns
  /\ \E r \in RfIds :
       /\ db.rawfiles[r].exists
       /\ Enter("process", db, r, db.rawfiles[r].dataset)
  /\ UNCHANGED <<db, tx, disk, rest>>

\* upload_csv, one file, no preprocessing: dataset and raw file are created
\* inside the per-file atomic block
UploadRequest ==
  /\ pc = "idle"
  /\ Ingestions(db) < MaxRuns
  /\ FreeDs(db) # {} /\ FreeRf(db) # {}
  /\ LET d == NextDs(db)
         r == NextRf(db)
         s == NewRawFile(NewDataset(db, d), r, d)
     IN /\ tx' = s
        /\ disk' = NewFile(r)
        /\ Enter("upload", s, r, d)
  /\ UNCHANGED <<db, rest>>

\* run_job whose job produced an output CSV: JobRun, Dataset and RawDataFile
\* are created in autocommit mode before process_csv is called
RunJobRequest ==
  /\ pc = "idle"
  /\ Ingestions(db) < MaxRuns
  /\ FreeDs(db) # {} /\ FreeRf(db) # {}
  /\ \E inp \in RfIds :
       /\ db.rawfiles[inp].exists
       /\ LET d == NextDs(db)
              r == NextRf(db)
              s0 == [db EXCEPT !.jobrun = [status |-> "RUNNING", output_dataset |-> 0]]
              s == NewRawFile(NewDataset(s0, d), r, d)
          IN /\ db' = s
             /\ tx' = s
             /\ disk' = NewFile(r)
             /\ Enter("run_job", s, r, d)
  /\ UNCHANGED rest

\* run_job whose job left no output CSV: the run is marked FAILED
RunJobNoOutput ==
  /\ pc = "idle"
  /\ \E inp \in RfIds :
       /\ db.rawfiles[inp].exists
       /\ db' = [db EXCEPT !.jobrun = [status |-> "FAILED", output_dataset |-> 0]]
  /\ tx' = db'
  /\ UNCHANGED <<disk, pc, call, local, result, pre, raw_file, rest>>

(* --------------------------- process_csv ------------------------------- *)
Frame1 == <<db, disk, call, result, pre, raw_file, rest>>

\* the except clause, lines 247-250: raw_file.processing_error = str(e) and
\* raw_file.save(), inside the atomic block.  After a database error the
\* transaction is marked for rollback and the save itself raises
\* TransactionManagementError, which leaves in place of the ValidationError.
DatabaseErrors == {"integrity", "storage"}
Except(e) ==
  /\ local' = [local EXCEPT !.exc = IF e \in DatabaseErrors THEN "transaction_management" ELSE e,
                            !.at = pc]
  /\ raw_file' = [raw_file EXCEPT !.processing_error = e]
  /\ tx' = IF e \in DatabaseErrors THEN tx
           ELSE [tx EXCEPT !.rawfiles[call.rf].processed = raw_file.processed,
                           !.rawfiles[call.rf].processing_error = e]
  /\ pc' = "raise"

\* detect_encoding and detect_delimiter: no state, never raise
Detect ==
  /\ pc = "detect"
  /\ pc' = "parse"
  /\ UNCHANGED <<tx, local, Frame1>>

\* the schema and the records deleted before the df.empty check
ParseDeletingFirst ==
  /\ pc = "parse"
  /\ \E df \in (IF disk[call.rf] = <<>> THEN Files ELSE {disk[call.rf][1]}) :
       /\ disk' = [disk EXCEPT ![call.rf] = <<df>>]
       /\ IF Len(df.rows) = 0 \/ Len(df.columns) = 0
          THEN /\ local' = [local EXCEPT !.exc = "empty", !.at = pc]
               /\ raw_file' = [raw_file EXCEPT !.processing_error = "empty"]
               /\ tx' = [tx EXCEPT !.schema[call.ds] = {}, !.columns[call.ds] = {},
                                   !.records[call.ds] = {},
                                   !.rawfiles[call.rf].processing_error = "empty"]
               /\ pc' = "raise"
          ELSE /\ local' = [local EXCEPT !.df = df]
               /\ tx' = [tx EXCEPT !.schema[call.ds] = {}, !.columns[call.ds] = {},
                                   !.records[call.ds] = {}]
               /\ pc' = "infer"
               /\ UNCHANGED raw_file
  /\ UNCHANGED <<db, call, result, pre, rest>>

\* pd.read_csv and the df.empty check
Parse ==
  /\ pc = "parse"
  /\ \E df \in (IF disk[call.rf] = <<>> THEN Files ELSE {disk[call.rf][1]}) :
       /\ disk' = [disk EXCEPT ![call.rf] = <<df>>]
       /\ IF Len(df.rows) = 0 \/ Len(df.columns) = 0
          THEN Except("empty")
          ELSE /\ local' = [local EXCEPT !.df = df]
               /\ pc' = "infer"
               /\ UNCHANGED <<tx, raw_file>>
  /\ UNCHANGED <<db, call, result, pre, rest>>

\* type inference followed directly by the record replacement
InferThenRecords ==
  /\ pc = "infer"
  /\ local' = [local EXCEPT !.column_types = infer_column_types(local.df)]
  /\ pc' = "delete_records"
  /\ UNCHANGED <<tx, Frame1>>

Infer ==
  /\ pc = "infer"
  /\ local' = [local EXCEPT !.column_types = infer_column_types(local.df)]
  /\ pc' = "delete_schema"
  /\ UNCHANGED <<tx, Frame1>>

\* the schema is not deleted before it is recreated
DeleteSchemaSkipped ==
  /\ pc = "delete_schema"
  /\ pc' = "create_schema"
  /\ UNCHANGED <<tx, local, Frame1>>

\* dataset.schema_fields.all().delete(); the catalog columns cascade
DeleteSchema ==
  /\ pc = "delete_schema"
  /\ tx' = [tx EXCEPT !.schema[call.ds] = {}, !.columns[call.ds] = {}]
  /\ pc' = "create_schema"
  /\ UNCHANGED <<local, Frame1>>

\* column_order counted from 1 instead of enumerate's 0
SchemaFieldOneBased(df, column_types, run, j) ==
  LET stats == calculate_statistics(df, j, column_types[j][2]) IN
  [column_name |-> column_types[j][1], column_type |-> column_types[j][2],
   column_order |-> j, is_nullable |-> TRUE, min_value |-> stats.min_value,
   max_value |-> stats.max_value, unique_count |-> stats.unique_count, run |-> run]

SchemaField(df, column_types, run, j) ==
  LET stats == calculate_statistics(df, j, column_types[j][2]) IN
  [column_name |-> column_types[j][1], column_type |-> column_types[j][2],
   column_order |-> j - 1, is_nullable |-> TRUE, min_value |-> stats.min_value,
   max_value |-> stats.max_value, unique_count |-> stats.unique_count, run |-> run]

\* the store after DataSchema.objects.create for the first j columns
RECURSIVE SchemaLoop(_, _, _, _, _, _)
SchemaLoop(store, d, df, column_types, run, j) ==
  IF j = 0 THEN store
  ELSE LET s == SchemaLoop(store, d, df, column_types, run, j - 1)
           field == SchemaField(df, column_types, run, j)
       IN sync_catalog_columns([s EXCEPT !.schema[d] = @ \cup {field}], d, field)

CreateSchema ==
  /\ pc = "create_schema"
  /\ tx' = SchemaLoop(tx, call.ds, local.df, local.column_types, call.run,
                      Len(local.column_types))
  /\ pc' = "delete_records"
  /\ UNCHANGED <<local, Frame1>>

\* the records are not deleted before the bulk insert
DeleteRecordsSkipped ==
  /\ pc = "delete_records"
  /\ pc' = "rows"
  /\ UNCHANGED <<tx, local, Frame1>>

\* dataset.records.all().delete()
DeleteRecords ==
  /\ pc = "delete_records"
  /\ tx' = [tx EXCEPT !.records[call.ds] = {}]
  /\ pc' = "rows"
  /\ UNCHANGED <<local, Frame1>>

\* a row loop without the per-row handler: the first failing row ends the run
RowsAborting ==
  /\ pc = "rows"
  /\ LET out == RowLoop(local.df, local.column_types, call.run, Len(local.df.rows)) IN
       IF out.error_count > 0
       THEN /\ Except("row")
            /\ UNCHANGED <<db, disk, call, result, pre, rest>>
       ELSE /\ local' = [local EXCEPT !.records_to_create = out.records_to_create,
                                      !.error_count = out.error_count,
                                      !.duplicate_count = out.duplicate_count]
            /\ pc' = "bulk_create"
            /\ UNCHANGED <<tx, Frame1>>

Rows ==
  /\ pc = "rows"
  /\ LET out == RowLoop(local.df, local.column_types, call.run, Len(local.df.rows)) IN
       local' = [local EXCEPT !.records_to_create = out.records_to_create,
                              !.error_count = out.error_count,
                              !.duplicate_count = out.duplicate_count]
  /\ pc' = "bulk_create"
  /\ UNCHANGED <<tx, Frame1>>

\* unique_together (dataset, row_number)
RowNumbers(S) == {r.row_number : r \in S}
Collides(stored, batch) ==
  \/ RowNumbers(stored) \cap RowNumbers(Range(batch)) # {}
  \/ \E i, k \in DOMAIN batch : i # k /\ batch[i].row_number = batch[k].row_number

BulkCreate ==
  /\ pc = "bulk_create"
  /\ IF Collides(tx.records[call.ds], local.records_to_create)
     THEN Except("integrity")
     ELSE /\ tx' = [tx EXCEPT !.records[call.ds] = @ \cup Range(local.records_to_create)]
          /\ pc' = "save_dataset"
          /\ UNCHANGED <<local, raw_file>>
  /\ UNCHANGED <<db, disk, call, result, pre, rest>>

\* dataset.total_rows = len(records_to_create); dataset.save()
SaveDataset ==
  /\ pc = "save_dataset"
  /\ tx' = ensure_catalog_asset(
             [tx EXCEPT !.datasets[call.ds].total_rows = Len(local.records_to_create)],
             call.ds)
  /\ pc' = "save_raw_file"
  /\ UNCHANGED <<local, Frame1>>

\* raw_file.processed = True; raw_file.save()
SaveRawFile ==
  /\ pc = "save_raw_file"
  /\ raw_file' = [raw_file EXCEPT !.processed = TRUE]
  /\ tx' = [tx EXCEPT !.rawfiles[call.rf].processed = TRUE,
                      !.rawfiles[call.rf].processing_error = raw_file.processing_error]
  /\ pc' = "report"
  /\ UNCHANGED <<db, disk, call, result, pre, local, rest>>

\* valid_records without the errors subtracted
ReportIgnoringErrors(total_records, error_count, duplicate_count, run) ==
  [total_records |-> total_records, valid_records |-> total_records,
   invalid_records |-> error_count, duplicate_records |-> duplicate_count, run |-> run]

create_quality_report(total_records, error_count, duplicate_count, run) ==
  [total_records |-> total_records, valid_records |-> total_records - error_count,
   invalid_records |-> error_count, duplicate_records |-> duplicate_count, run |-> run]

\* the new report stored in place of the dataset's earlier ones
ReportSuperseding ==
  /\ pc = "report"
  /\ LET report == create_quality_report(Len(local.df.rows), local.error_count,
                                         local.duplicate_count, call.run)
     IN tx' = create_metric_snapshot(
                [tx EXCEPT !.reports[call.ds] = <<report>>], call.ds, report)
  /\ pc' = "return"
  /\ UNCHANGED <<local, Frame1>>

Report ==
  /\ pc = "report"
  /\ LET report == create_quality_report(Len(local.df.rows), local.error_count,
                                         local.duplicate_count, call.run)
     IN tx' = create_metric_snapshot(
                [tx EXCEPT !.reports[call.ds] = Append(@, report)], call.ds, report)
  /\ pc' = "return"
  /\ UNCHANGED <<local, Frame1>>

Last(s) == s[Len(s)]

Summary(loc, report) ==
  [success |-> TRUE, total_rows |-> Len(loc.df.rows),
   processed_rows |-> Len(loc.records_to_create), error_rows |-> loc.error_count,
   duplicate_rows |-> loc.duplicate_count,
   columns |-> [j \in DOMAIN loc.column_types |-> loc.column_types[j][1]],
   quality_score |-> (report.valid_records * 100) \div report.total_records]

\* the return statement; the atomic decorator commits unless it is nested
Return ==
  /\ pc = "return"
  /\ result' = Summary(local, Last(tx.reports[call.ds]))
  /\ db' = IF call.caller = "upload" THEN db ELSE tx
  /\ ingested' = IF call.caller = "upload" THEN ingested
                 ELSE [ingested EXCEPT ![call.ds] = <<local.df>>]
  /\ call' = [call EXCEPT !.outcome = "success"]
  /\ local' = NoLocal
  /\ pc' = "returned"
  /\ UNCHANGED <<tx, disk, pre, raw_file, hashVars, catalogVars, validatorVars, conc, extraVars>>

\* a database error raised by any of the statements that touch the store
StorageError ==
  /\ pc \in {"delete_schema", "create_schema", "delete_records", "bulk_create",
             "save_dataset", "save_raw_file", "report"}
  /\ Except("storage")
  /\ UNCHANGED <<db, disk, call, result, pre, rest>>

\* process_csv without the atomic decorator: the writes stay
RaiseWithoutRollback ==
  /\ pc = "raise"
  /\ db' = tx
  /\ call' = [call EXCEPT !.outcome = "failed", !.error = local.exc, !.at = local.at]
  /\ local' = NoLocal
  /\ pc' = "raised"
  /\ UNCHANGED <<tx, disk, result, pre, raw_file, rest>>

\* line 252 raises through the atomic decorator (and, for upload_csv, through
\* the enclosing atomic block): everything written since entry is undone
RaiseRollback ==
  /\ pc = "raise"
  /\ tx' = db
  /\ call' = [call EXCEPT !.outcome = "failed", !.error = local.exc, !.at = local.at]
  /\ local' = NoLocal
  /\ pc' = "raised"
  /\ UNCHANGED <<db, disk, result, pre, raw_file, rest>>

(* ---------------------- back in the caller ----------------------------- *)
SetRun(store, st, d) ==
  [store EXCEPT !.jobrun = [status |-> st, output_dataset |-> d]]

\* the code after process_csv returned
CallerSuccess ==
  /\ pc = "returned"
  /\ db' = CASE call.caller = "upload" -> tx
             [] call.caller = "run_job" -> SetRun(db, "SUCCESS", call.ds)
             [] OTHER -> db
  /\ tx' = db'
  /\ ingested' = IF call.caller = "upload"
                 THEN [ingested EXCEPT ![call.ds] = disk[call.rf]] ELSE ingested
  /\ pc' = "idle"
  /\ call' = NoCall
  /\ result' = NoResult
  /\ pre' = NoPre
  /\ raw_file' = NoRawObject
  /\ UNCHANGED <<disk, local, hashVars, catalogVars, validatorVars, conc, extraVars>>

\* the except clause of the caller
CallerFailure ==
  /\ pc = "raised"
  /\ db' = IF call.caller = "run_job" THEN SetRun(db, "FAILED", 0) ELSE db
  /\ tx' = db'
  /\ disk' = IF call.caller = "upload" THEN NewFile(call.rf) ELSE disk
  /\ pc' = "idle"
  /\ call' = NoCall
  /\ result' = NoResult
  /\ pre' = NoPre
  /\ raw_file' = NoRawObject
  /\ UNCHANGED <<local, rest>>

Next ==
  \/ CreateDataset \/ ReplaceFile
  \/ ProcessRequest \/ UploadRequest \/ RunJobRequest \/ RunJobNoOutput
  \/ Detect \/ Parse \/ Infer \/ DeleteSchema \/ CreateSchema \/ DeleteRecords
  \/ Rows \/ BulkCreate \/ SaveDataset \/ SaveRawFile \/ Report \/ Return
  \/ StorageError \/ RaiseRollback
  \/ CallerSuccess \/ CallerFailure

Spec == Init /\ [][Next]_vars

(* ------------ the same tables written through the ORM ------------------ *)
\* Dataset, DataSchema and DataQualityReport rows are also created and saved
\* directly (the admin site, base/tests.py, test_r_lake.py); every such save
\* fires the same post_save receivers.  process_csv runs here as one step,
\* which is what its transaction makes of it for every other reader.
ColumnNames == {"rpm", "speed"}
RowCounts == {0, 120}
ReportInputs ==
  {[total_records |-> 0, valid_records |-> 0, invalid_records |-> 0, duplicate_records |-> 0],
   [total_records |-> 100, valid_records |-> 95, invalid_records |-> 5, duplicate_records |-> 2]}

OrmStep ==
  /\ pc = "idle"
  /\ ormOps < MaxOrmOps
  /\ ormOps' = ormOps + 1
CatalogFrame ==
  <<pc, call, local, result, pre, raw_file, hashIn, hashOut, valIn, valOut, conc, extraVars>>

\* Dataset.objects.create(..., total_rows=rows)
OrmCreateDataset ==
  /\ OrmStep
  /\ FreeDs(db) # {}
  /\ \E rows \in RowCounts :
       db' = ensure_catalog_asset(
               [db EXCEPT !.datasets[NextDs(db)] = [exists |-> TRUE, total_rows |-> rows]],
               NextDs(db))
  /\ tx' = db'
  /\ UNCHANGED <<disk, ingested, response, CatalogFrame>>

\* dataset.total_rows = rows; dataset.save()
OrmSaveDataset ==
  /\ OrmStep
  /\ \E d \in DsIds, rows \in RowCounts :
       /\ db.datasets[d].exists
       /\ db' = ensure_catalog_asset([db EXCEPT !.datasets[d].total_rows = rows], d)
  /\ tx' = db'
  /\ UNCHANGED <<disk, ingested, response, CatalogFrame>>

\* the primary key of a schema field is <<run, column_order>>; rows created
\* outside process_csv carry run 0 and the first free order
FreeOrder(fields) ==
  SetMin({k \in 0..Cardinality(fields) : \A f \in fields : ~(f.run = 0 /\ f.column_order = k)})

\* DataSchema.objects.create(dataset, column_name, column_type, ...); a name
\* the dataset already has violates unique_together and creates nothing
OrmCreateSchema ==
  /\ OrmStep
  /\ \E d \in DsIds, name \in ColumnNames, type \in {"FLOAT", "STRING"} :
       /\ db.datasets[d].exists
       /\ \A f \in db.schema[d] : f.column_name # name
       /\ LET field == [column_name |-> name, column_type |-> type,
                        column_order |-> FreeOrder(db.schema[d]), is_nullable |-> FALSE,
                        min_value |-> <<0>>, max_value |-> <<240>>, unique_count |-> 120,
                        run |-> 0]
          IN db' = sync_catalog_columns([db EXCEPT !.schema[d] = @ \cup {field}], d, field)
  /\ tx' = db'
  /\ UNCHANGED <<disk, ingested, response, CatalogFrame>>

\* a stored schema field is edited and saved
OrmSaveSchema ==
  /\ OrmStep
  /\ \E d \in DsIds, name \in ColumnNames, type \in {"FLOAT", "STRING"} :
       \E f \in db.schema[d] :
         /\ \A g \in db.schema[d] \ {f} : g.column_name # name
         /\ LET field == [f EXCEPT !.column_name = name, !.column_type = type]
            IN /\ field # f
               /\ db' = sync_catalog_columns(
                          [db EXCEPT !.schema[d] = (@ \ {f}) \cup {field}], d, field)
  /\ tx' = db'
  /\ UNCHANGED <<disk, ingested, response, CatalogFrame>>

\* DataQualityReport.objects.create(dataset, total_records, ...)
OrmCreateReport ==
  /\ OrmStep
  /\ \E d \in DsIds, inp \in ReportInputs :
       /\ db.datasets[d].exists
       /\ Len(db.reports[d]) < MaxReports
       /\ LET report == [total_records |-> inp.total_records,
                         valid_records |-> inp.valid_records,
                         invalid_records |-> inp.invalid_records,
                         duplicate_records |-> inp.duplicate_records,
                         run |-> Ingestions(db) + 1]
          IN db' = create_metric_snapshot(
                     [db EXCEPT !.reports[d] = Append(@, report)], d, report)
  /\ tx' = db'
  /\ UNCHANGED <<disk, ingested, response, CatalogFrame>>

\* the save of a stored report with the receiver's `created` test left out
OrmSaveReportSnapshotting ==
  /\ OrmStep
  /\ \E d \in DsIds, inp \in ReportInputs :
       \E i \in DOMAIN db.reports[d] :
         /\ db.reports[d][i].total_records # inp.total_records
         /\ LET report == [db.reports[d][i] EXCEPT
                             !.total_records = inp.total_records,
                             !.valid_records = inp.valid_records,
                             !.invalid_records = inp.invalid_records,
                             !.duplicate_records = inp.duplicate_records]
            IN db' = create_metric_snapshot([db EXCEPT !.reports[d][i] = report], d, report)
  /\ tx' = db'
  /\ UNCHANGED <<disk, ingested, response, CatalogFrame>>

\* a stored report is edited and saved: post_save with created = False
OrmSaveReport ==
  /\ OrmStep
  /\ \E d \in DsIds, inp \in ReportInputs :
       \E i \in DOMAIN db.reports[d] :
         /\ db.reports[d][i].total_records # inp.total_records
         /\ db' = [db EXCEPT !.reports[d][i] =
                     [@ EXCEPT !.total_records = inp.total_records,
                               !.valid_records = inp.valid_records,
                               !.invalid_records = inp.invalid_records,
                               !.duplicate_records = inp.duplicate_records]]
  /\ tx' = db'
  /\ UNCHANGED <<disk, ingested, response, CatalogFrame>>

\* GET datasets/<pk>/quality_report/: the latest report, score unguarded
quality_report(store, d) ==
  IF store.reports[d] = <<>>
  THEN [status |-> 404, total_records |-> 0, quality_score |-> <<>>]
  ELSE LET latest_report == Last(store.reports[d]) IN
       IF latest_report.total_records = 0
       THEN [status |-> 500, total_records |-> 0, quality_score |-> <<>>]
       ELSE [status |-> 200, total_records |-> latest_report.total_records,
             quality_score |->
               <<(latest_report.valid_records * 100) \div latest_report.total_records>>]

\* dataset.quality_reports.order_by('-report_date').first() of the detail
\* page; report_date is set once, at creation, and `run` stands for it
ShownReport(store, d) ==
  IF store.reports[d] = <<>> THEN <<>>
  ELSE LET i == CHOOSE i \in DOMAIN store.reports[d] :
                  \A k \in DOMAIN store.reports[d] :
                     store.reports[d][k].run <= store.reports[d][i].run
       IN <<store.reports[d][i]>>

QualityReportView ==
  /\ OrmStep
  /\ \E d \in DsIds :
       /\ db.datasets[d].exists
       /\ response' = quality_report(db, d)
  /\ UNCHANGED <<db, tx, disk, ingested, CatalogFrame>>

\* the store a successful process_csv(raw_file, dataset) commits
Ingested(store, d, r, df, run) ==
  LET column_types == infer_column_types(df)
      out == RowLoop(df, column_types, run, Len(df.rows))
      s1 == [store EXCEPT !.schema[d] = {}, !.columns[d] = {}]
      s2 == SchemaLoop(s1, d, df, column_types, run, Len(column_types))
      s3 == [s2 EXCEPT !.records[d] = Range(out.records_to_create)]
      s4 == ensure_catalog_asset(
              [s3 EXCEPT !.datasets[d].total_rows = Len(out.records_to_create)], d)
      s5 == [s4 EXCEPT !.rawfiles[r].processed = TRUE]
      report == create_quality_report(Len(df.rows), out.error_count, out.duplicate_count, run)
  IN create_metric_snapshot([s5 EXCEPT !.reports[d] = Append(@, report)], d, report)

\* RawDataFile.objects.create for a stored dataset, then process_csv on a
\* file that parses to a non-empty frame
CatalogIngest ==
  /\ OrmStep
  /\ \E d \in DsIds, df \in Files \ {FileEmpty} :
       /\ db.datasets[d].exists
       /\ Len(db.reports[d]) < MaxReports
       /\ db' = Ingested(NewRawFile(db, d, d), d, d, df, Ingestions(db) + 1)
       /\ disk' = [disk EXCEPT ![d] = <<df>>]
       /\ ingested' = [ingested EXCEPT ![d] = <<df>>]
  /\ tx' = db'
  /\ UNCHANGED <<response, CatalogFrame>>

NextCatalog ==
  \/ OrmCreateDataset \/ OrmSaveDataset
  \/ OrmCreateSchema \/ OrmSaveSchema
  \/ OrmCreateReport \/ OrmSaveReport
  \/ QualityReportView \/ CatalogIngest

SpecCatalog == Init /\ [][NextCatalog]_vars

(* ---------------- generate_data_hash on its own ------------------------ *)
HashKeys == {"rpm", "speed", "ts"}
HashValues == {PyNone, PyInt(10), PyInt(1000)}

\* the dicts of at most MaxKeys keys, in every insertion order
Dicts ==
  UNION {{d \in [1..n -> HashKeys \X HashValues] :
            \A i, j \in 1..n : i # j => d[i][1] # d[j][1]} : n \in 0..MaxKeys}

\* one more call of generate_data_hash; the arguments and digests are kept
HashCall ==
  /\ Len(hashIn) < 2
  /\ \E d \in Dicts :
       /\ hashIn' = Append(hashIn, d)
       /\ hashOut' = Append(hashOut, generate_data_hash(d))
  /\ UNCHANGED <<db, tx, disk, pc, call, local, result, pre, raw_file, ingested, catalogVars, validatorVars, conc, extraVars>>

NextHash == HashCall

SpecHash == Init /\ [][NextHash]_vars

(* ------------------------- DataValidator ------------------------------- *)
\* text values: PyStr(n) is a non-numeric, non-empty text, EmptyStr is ''
PyStr(n) == [kind |-> "str", n |-> n]
EmptyStr == [kind |-> "str", n |-> -1]
RecordValues == {PyNone, NaNCell, PyInt(5), PyInt(50), EmptyStr, PyStr(1)}

\* record_data.get(column_name)
RecordGet(record_data, column_name) ==
  IF column_name \in DictKeys(record_data)
  THEN record_data[DictGet(record_data, column_name)][2]
  ELSE PyNone

\* float(value) raises for None and for text; NaN compares false both ways
validate_range(value, config) ==
  IF value.kind \in {"none", "str"} THEN FALSE
  ELSE IF value.kind = "nan" THEN TRUE
  ELSE /\ (config.min # <<>> => ~(value.n < config.min[1]))
       /\ (config.max # <<>> => ~(value.n > config.max[1]))

\* re.match(pattern, str(value)); the one pattern of the model is ^\d+$
validate_pattern(value, config) ==
  IF config.pattern = <<>> THEN TRUE
  ELSE value.kind = "int" /\ value.n >= 0

validate_not_null(value, config) ==
  value.kind # "none" /\ value # EmptyStr /\ value.kind # "nan"

\* getattr(self, 'validate_' + rule_type.lower(), None): UNIQUE and CUSTOM
\* have no method
HasValidator(rule_type) == rule_type \in {"RANGE", "PATTERN", "NOT_NULL"}
Validator(rule_type, value, config) ==
  CASE rule_type = "RANGE" -> validate_range(value, config)
    [] rule_type = "PATTERN" -> validate_pattern(value, config)
    [] rule_type = "NOT_NULL" -> validate_not_null(value, config)
    [] OTHER -> TRUE

ErrorMessage(rule) == <<rule.column_name, rule.rule_type, "validation failed">>

\* the loop cut at the first failing rule
RECURSIVE ValidateUntilFirstError(_, _, _)
ValidateUntilFirstError(record_data, rules, i) ==
  IF i = 0 THEN <<>>
  ELSE LET errors == ValidateUntilFirstError(record_data, rules, i - 1)
           rule == rules[i]
           value == RecordGet(record_data, rule.column_name)
       IN IF errors = <<>> /\ rule.is_active /\ HasValidator(rule.rule_type)
             /\ ~Validator(rule.rule_type, value, rule.rule_config)
          THEN Append(errors, ErrorMessage(rule))
          ELSE errors

\* a rule type without a validator method counts as a failure
RECURSIVE ValidateLoopStrict(_, _, _)
ValidateLoopStrict(record_data, rules, i) ==
  IF i = 0 THEN <<>>
  ELSE LET errors == ValidateLoopStrict(record_data, rules, i - 1)
           rule == rules[i]
           value == RecordGet(record_data, rule.column_name)
       IN IF rule.is_active
             /\ (~HasValidator(rule.rule_type)
                   \/ ~Validator(rule.rule_type, value, rule.rule_config))
          THEN Append(errors, ErrorMessage(rule))
          ELSE errors

\* errors after the first i rules; the queryset filter drops inactive rules
RECURSIVE ValidateLoop(_, _, _)
ValidateLoop(record_data, rules, i) ==
  IF i = 0 THEN <<>>
  ELSE LET errors == ValidateLoop(record_data, rules, i - 1)
           rule == rules[i]
           value == RecordGet(record_data, rule.column_name)
       IN IF rule.is_active /\ HasValidator(rule.rule_type)
             /\ ~Validator(rule.rule_type, value, rule.rule_config)
          THEN Append(errors, ErrorMessage(rule))
          ELSE errors

validate_record(record_data, rules) ==
  LET errors == ValidateLoop(record_data, rules, Len(rules))
  IN [passed |-> Len(errors) = 0, errors |-> errors]

RuleConfigs ==
  [RANGE |-> [min |-> <<0>>, max |-> <<10>>, pattern |-> <<>>],
   PATTERN |-> [min |-> <<>>, max |-> <<>>, pattern |-> <<"^\\d+$">>],
   NOT_NULL |-> [min |-> <<>>, max |-> <<>>, pattern |-> <<>>],
   UNIQUE |-> [min |-> <<>>, max |-> <<>>, pattern |-> <<>>],
   CUSTOM |-> [min |-> <<>>, max |-> <<>>, pattern |-> <<>>]]

\* DataValidationRule.RULE_TYPES
RULE_TYPES == {"RANGE", "PATTERN", "NOT_NULL", "UNIQUE", "CUSTOM"}

\* the validation rules a dataset may hold, rule_config a dict of the rule's type
Rules ==
  {[column_name |-> c, rule_type |-> t, rule_config |-> RuleConfigs[t], is_active |-> a] :
     c \in ColumnNames, t \in RULE_TYPES, a \in BOOLEAN}

RuleLists == UNION {[1..n -> Rules] : n \in 0..MaxRules}
Records == {<<>>} \cup {<< <<"speed", v>> >> : v \in RecordValues}

\* one call of validate_record; its arguments and its result are kept
ValidateCall ==
  /\ valIn = <<>>
  /\ \E record_data \in Records, rules \in RuleLists :
       /\ valIn' = <<record_data, rules>>
       /\ valOut' = <<validate_record(record_data, rules)>>
  /\ UNCHANGED <<db, tx, disk, pc, call, local, result, pre, raw_file, ingested,
                 hashVars, catalogVars, conc, extraVars>>

NextValidate == ValidateCall

SpecValidate == Init /\ [][NextValidate]_vars

(* -------------------- two ingestions at once --------------------------- *)
\* process_csv takes no lock of its own: what two overlapping runs on one
\* dataset do to each other is left to the database.  The backend is not
\* fixed by the code, so both kinds are modelled: "serial" admits one writing
\* transaction at a time (SQLite), "row" is READ COMMITTED with row locks and
\* unique indexes (PostgreSQL, MySQL).  Each statement reads the committed
\* rows and the transaction's own writes; a statement that would wait for a
\* lock is not enabled until the lock is released.
ConcDs == 1
\* ts / 1 / 2 : every column is int64
FileTs == Frame(<<"ts">>, <<0, 1>>, << <<NumpyInt(1)>>, <<NumpyInt(2)>> >>)
ConcFiles == {FileScenario, FileTs}

Other(p) == CHOOSE q \in Procs : q # p
Txn(p) == conc.t[p]
ConcFrame == <<disk, pc, call, local, result, pre, raw_file, ingested, hashIn, hashOut,
               response, ormOps, valIn, valOut, extraVars>>

InsSchema(t) ==
  LET column_types == infer_column_types(t.df[1]) IN
  {SchemaField(t.df[1], column_types, t.run, j) : j \in 1..Len(column_types)}
InsRecords(t) ==
  LET column_types == infer_column_types(t.df[1]) IN
  Range(RowLoop(t.df[1], column_types, t.run, Len(t.df[1].rows)).records_to_create)
Names(fields) == {f.column_name : f \in fields}

SchemaWritten(t) == t.pc \in {"delete_records", "bulk_create", "save", "commit"}
RecordsWritten(t) == t.pc \in {"save", "commit"}
HoldsWriteLock(t) == t.pc \notin {"idle", "delete_schema"}

\* a dataset with its raw files exists; the deployment's backend is one of the two
ConcSetup ==
  /\ conc.backend = "none"
  /\ \E b \in {"serial", "row"} : conc' = [conc EXCEPT !.backend = b]
  /\ db' = NewRawFile(NewDataset(db, ConcDs), ConcDs, ConcDs)
  /\ tx' = db'
  /\ UNCHANGED ConcFrame

\* a request enters process_csv for one of the dataset's raw files
ConcBegin(p) ==
  /\ conc.backend # "none"
  /\ Txn(p).pc = "idle"
  /\ Len(db.reports[ConcDs]) + (IF Txn(Other(p)).pc = "idle" THEN 0 ELSE 1) < MaxConcRuns
  /\ \E df \in ConcFiles :
       conc' = [conc EXCEPT !.t[p] = [IdleTxn EXCEPT !.pc = "delete_schema", !.df = <<df>>,
                                         !.run = 2 * (Len(db.reports[ConcDs]) + 1) + p]]
  /\ UNCHANGED <<db, tx, ConcFrame>>

\* dataset.schema_fields.all().delete()
ConcDeleteSchema(p) ==
  /\ Txn(p).pc = "delete_schema"
  /\ conc.backend = "serial" => ~HoldsWriteLock(Txn(Other(p)))
  /\ conc.backend = "row" => Txn(Other(p)).del_schema = {}
  /\ conc' = [conc EXCEPT !.t[p].pc = "create_schema", !.t[p].del_schema = db.schema[ConcDs]]
  /\ UNCHANGED <<db, tx, ConcFrame>>

\* the other transaction holds the database lock for longer than the timeout
ConcLockTimeout(p) ==
  /\ Txn(p).pc = "delete_schema"
  /\ conc.backend = "serial"
  /\ HoldsWriteLock(Txn(Other(p)))
  /\ conc' = [conc EXCEPT !.t[p] = [IdleTxn EXCEPT !.error = "locked"]]
  /\ UNCHANGED <<db, tx, ConcFrame>>

\* the DataSchema.objects.create loop under unique_together (dataset, column_name)
ConcCreateSchema(p) ==
  LET t == Txn(p)
      q == Txn(Other(p))
      names == Names(InsSchema(t))
  IN /\ t.pc = "create_schema"
     /\ ~(SchemaWritten(q) /\ Names(InsSchema(q)) \cap names # {})
     /\ Names(q.del_schema) \cap names = {}
     /\ IF Names(db.schema[ConcDs] \ t.del_schema) \cap names # {}
        THEN conc' = [conc EXCEPT !.t[p] = [IdleTxn EXCEPT !.error = "integrity"]]
        ELSE conc' = [conc EXCEPT !.t[p].pc = "delete_records"]
     /\ UNCHANGED <<db, tx, ConcFrame>>

\* dataset.records.all().delete()
ConcDeleteRecords(p) ==
  /\ Txn(p).pc = "delete_records"
  /\ Txn(Other(p)).del_records = {}
  /\ conc' = [conc EXCEPT !.t[p].pc = "bulk_create", !.t[p].del_records = db.records[ConcDs]]
  /\ UNCHANGED <<db, tx, ConcFrame>>

\* bulk_create under unique_together (dataset, row_number)
ConcBulkCreate(p) ==
  LET t == Txn(p)
      q == Txn(Other(p))
      numbers == RowNumbers(InsRecords(t))
  IN /\ t.pc = "bulk_create"
     /\ ~(RecordsWritten(q) /\ RowNumbers(InsRecords(q)) \cap numbers # {})
     /\ RowNumbers(q.del_records) \cap numbers = {}
     /\ IF RowNumbers(db.records[ConcDs] \ t.del_records) \cap numbers # {}
        THEN conc' = [conc EXCEPT !.t[p] = [IdleTxn EXCEPT !.error = "integrity"]]
        ELSE conc' = [conc EXCEPT !.t[p].pc = "save"]
     /\ UNCHANGED <<db, tx, ConcFrame>>

\* dataset.save(), raw_file.save() and the report: the dataset row is locked
\* until the transaction ends
ConcSave(p) ==
  /\ Txn(p).pc = "save"
  /\ Txn(Other(p)).pc # "commit"
  /\ conc' = [conc EXCEPT !.t[p].pc = "commit"]
  /\ UNCHANGED <<db, tx, ConcFrame>>

\* the committed store once the transaction's writes are published
ConcCommitted(store, t) ==
  LET d == ConcDs
      df == t.df[1]
      column_types == infer_column_types(df)
      out == RowLoop(df, column_types, t.run, Len(df.rows))
      s1 == [store EXCEPT
               !.schema[d] = @ \ t.del_schema,
               !.columns[d] = {c \in @ : \A f \in t.del_schema :
                                            c.schema_field # <<f.run, f.column_order>>},
               !.records[d] = @ \ t.del_records]
      s2 == SchemaLoop(s1, d, df, column_types, t.run, Len(column_types))
      s3 == [s2 EXCEPT !.records[d] = @ \cup Range(out.records_to_create)]
      s4 == ensure_catalog_asset(
              [s3 EXCEPT !.datasets[d].total_rows = Len(out.records_to_create)], d)
      s5 == [s4 EXCEPT !.rawfiles[d].processed = TRUE]
      report == create_quality_report(Len(df.rows), out.error_count, out.duplicate_count, t.run)
  IN create_metric_snapshot([s5 EXCEPT !.reports[d] = Append(@, report)], d, report)

\* the atomic block exits normally
ConcCommit(p) ==
  /\ Txn(p).pc = "commit"
  /\ db' = ConcCommitted(db, Txn(p))
  /\ tx' = db'
  /\ conc' = [conc EXCEPT !.t[p] = IdleTxn]
  /\ UNCHANGED ConcFrame

NextConcurrent ==
  \/ ConcSetup
  \/ \E p \in Procs :
       \/ ConcBegin(p) \/ ConcDeleteSchema(p) \/ ConcLockTimeout(p) \/ ConcCreateSchema(p)
       \/ ConcDeleteRecords(p) \/ ConcBulkCreate(p) \/ ConcSave(p) \/ ConcCommit(p)

SpecConcurrent == Init /\ [][NextConcurrent]_vars

(* ============================== claims ================================= *)
InFlight == pc \notin {"idle", "returned"}
ThisFrame == disk[call.rf][1]
Shape(fields) == {<<f.column_name, f.column_type, f.column_order>> : f \in fields}
HashOf(records) == {<<r.row_number, r.data_hash>> : r \in records}

\* C1: while process_csv runs, and after it has failed and returned, the
\* committed schema fields, records, total_rows and quality reports of the
\* dataset are what they were when the call began; after the failure the
\* working store holds no write of the run either.
C1_AllOrNothing ==
  /\ InFlight => Snapshot(db, call.ds) = pre
  /\ pc = "raised" => tx = db

\* a run over an already ingested dataset failed at the bulk insert, after the
\* schema was replaced and the old records were deleted
C1_Witness ==
  /\ pc = "raised"
  /\ call.at = "bulk_create"
  /\ pre.schema # {}
  /\ pre.records # {}

\* C2: after a successful process_csv on a dataset that already had schema
\* fields and records, the stored fields and records are exactly the ones this
\* run produced, none of the earlier ones is left, and total_rows is the number
\* of stored records.
C2_FullyReplaced ==
  (pc = "returned" /\ pre.schema # {} /\ pre.records # {}) =>
     LET types == infer_column_types(ThisFrame)
         out == RowLoop(ThisFrame, types, call.run, Len(ThisFrame.rows))
     IN /\ tx.records[call.ds] = Range(out.records_to_create)
        /\ tx.schema[call.ds] =
             {SchemaField(ThisFrame, types, call.run, j) : j \in 1..Len(ThisFrame.columns)}
        /\ tx.records[call.ds] \cap pre.records = {}
        /\ tx.schema[call.ds] \cap pre.schema = {}
        /\ tx.datasets[call.ds].total_rows = Cardinality(tx.records[call.ds])
        /\ db = tx

\* a dataset ingested from one file has been re-ingested from another
C2_Witness ==
  /\ pc = "returned"
  /\ pre.schema # {}
  /\ pre.records # {}
  /\ pre.source # disk[call.rf]
  /\ Shape(tx.schema[call.ds]) # Shape(pre.schema)

\* C3: in the summary of a successful run processed_rows + error_rows =
\* total_rows, total_rows is the number of input rows and processed_rows the
\* number of stored records.
C3_RowsAccounted ==
  pc = "returned" =>
     /\ result.processed_rows + result.error_rows = result.total_rows
     /\ result.total_rows = Len(ThisFrame.rows)
     /\ result.processed_rows = Cardinality(tx.records[call.ds])

\* a successful run over a dataset that had records, every row of which was
\* counted as an error
C3_Witness ==
  /\ pc = "returned"
  /\ result.total_rows > 0
  /\ result.error_rows = result.total_rows
  /\ pre.records # {}

\* C4: a successful run over the file that produced the dataset's committed
\* contents leaves the same columns (name, type, order), as many schema fields
\* and records, the same total_rows and the same hash for each row_number.
C4_Idempotent ==
  (pc = "returned" /\ pre.source # <<>> /\ pre.source = disk[call.rf]) =>
     /\ Shape(tx.schema[call.ds]) = Shape(pre.schema)
     /\ Cardinality(tx.schema[call.ds]) = Cardinality(pre.schema)
     /\ HashOf(tx.records[call.ds]) = HashOf(pre.records)
     /\ Cardinality(tx.records[call.ds]) = Cardinality(pre.records)
     /\ tx.datasets[call.ds].total_rows = pre.total_rows

\* the second of two successful runs over the same unchanged file
C4_Witness ==
  /\ pc = "returned"
  /\ pre.source # <<>>
  /\ pre.source = disk[call.rf]
  /\ pre.records # {}

\* C5: once a failed process_csv has returned to its caller, the stored raw
\* file carries the text of the exception in processing_error.
C5_ErrorRecorded ==
  pc = "raised" =>
     /\ db.rawfiles[call.rf].exists
     /\ db.rawfiles[call.rf].processing_error = call.error

\* C6: when a run_job request whose process_csv failed returns, neither the
\* Dataset nor the RawDataFile it created is stored.
C6_NoLeftover ==
  [][(pc = "raised" /\ call.caller = "run_job" /\ pc' = "idle") =>
        (~db'.datasets[call.ds].exists /\ ~db'.rawfiles[call.rf].exists)]_vars

\* C7: two dicts that assign the same value to every key have the same hash,
\* whatever the insertion order of their keys.
C7_OrderIndependent ==
  (Len(hashIn) = 2 /\ Range(hashIn[1]) = Range(hashIn[2])) => hashOut[1] = hashOut[2]

\* the same two-key mapping hashed in both insertion orders
C7_Witness ==
  /\ Len(hashIn) = 2
  /\ Len(hashIn[1]) = 2
  /\ Range(hashIn[1]) = Range(hashIn[2])
  /\ hashIn[1] # hashIn[2]

\* the stored records whose hash is that of an earlier record of the run
Duplicates(records) ==
  {r \in records : \E q \in records : q.row_number < r.row_number /\ q.data_hash = r.data_hash}

\* C8: duplicate_rows of the summary and duplicate_records of the report are
\* the number of stored rows whose hash equals that of an earlier row.
C8_DuplicatesCounted ==
  pc = "returned" =>
     /\ result.duplicate_rows = Cardinality(Duplicates(tx.records[call.ds]))
     /\ Last(tx.reports[call.ds]).duplicate_records =
          Cardinality(Duplicates(tx.records[call.ds]))

\* C9: after a successful run the row_numbers of the stored records are
\* exactly 1..N, N the number of stored records.
C9_RowNumbersContiguous ==
  pc = "returned" =>
     RowNumbers(tx.records[call.ds]) = 1..Cardinality(tx.records[call.ds])

\* C10: every quality report has valid_records = total_records - error count
\* and invalid_records = error count, so valid + invalid = total and
\* 0 <= valid <= total, whatever its duplicate count.
C10_ReportCounts ==
  /\ \A d \in DsIds : \A i \in DOMAIN tx.reports[d] :
       LET r == tx.reports[d][i] IN
         /\ r.valid_records + r.invalid_records = r.total_records
         /\ 0 <= r.valid_records
         /\ r.valid_records <= r.total_records
  /\ pc = "return" =>
       LET r == Last(tx.reports[call.ds]) IN
         /\ r.total_records = Len(local.df.rows)
         /\ r.invalid_records = local.error_count
         /\ r.valid_records = Len(local.df.rows) - local.error_count

\* a dataset with a committed report of a run that counted error rows and one
\* of a run that stored rows
C10_Witness ==
  \E d \in DsIds : \E i, k \in DOMAIN db.reports[d] :
     /\ db.reports[d][i].invalid_records > 0
     /\ db.reports[d][k].valid_records > 0
     /\ db.reports[d][k].duplicate_records = 0

\* C11: wherever the quality score is computed, a report with total_records = 0
\* gives the score 0 and no error: every metric snapshot of such a report has
\* quality_score 0, and the quality_report endpoint answers 200 with the
\* score valid * 100 / total, 0 when total is 0.
C11_ZeroTotalScoresZero ==
  /\ \A d \in DsIds : \A i \in DOMAIN db.snapshots[d] :
       db.snapshots[d][i].total_records = 0 => db.snapshots[d][i].quality_score = <<0>>
  /\ response.status \notin {0, 404} =>
       /\ response.status = 200
       /\ response.total_records = 0 => response.quality_score = <<0>>

\* C12: a file with no data rows or no columns makes process_csv fail at the
\* parse step, before anything of the dataset is deleted: up to and including
\* the failure the working store holds the dataset's earlier schema, records,
\* total_rows and reports, and once the call has failed the committed store
\* holds them too, the caller has an error, and the raw file's processed flag
\* is what it was when the call began.
C12_EmptyInputCommitsNothing ==
  /\ pc \in {"detect", "parse"} => Snapshot(tx, call.ds) = pre
  /\ (pc = "raise" /\ local.exc = "empty") =>
       /\ local.at = "parse"
       /\ Snapshot(tx, call.ds) = pre
  /\ (pc = "raised" /\ call.error = "empty") =>
       /\ call.outcome = "failed"
       /\ call.at = "parse"
       /\ Snapshot(db, call.ds) = pre
       /\ tx = db
       /\ db.rawfiles[call.rf].processed = raw_file.processed

\* a dataset ingested and marked processed earlier was re-ingested from a file
\* with a header and no rows, and the call has failed
C12_Witness ==
  /\ pc = "raised"
  /\ call.error = "empty"
  /\ pre.schema # {}
  /\ pre.records # {}
  /\ db.rawfiles[call.rf].processed

\* the rules of the call that are active and whose validator rejects the value
FailingRules ==
  {i \in DOMAIN valIn[2] :
     /\ valIn[2][i].is_active
     /\ HasValidator(valIn[2][i].rule_type)
     /\ ~Validator(valIn[2][i].rule_type, RecordGet(valIn[1], valIn[2][i].column_name),
                   valIn[2][i].rule_config)}

\* C13: validate_record returns passed = TRUE exactly when no active rule
\* fails; the error list has one entry per failing active rule, in rule
\* order, naming that rule, so an inactive rule contributes nothing and a
\* failure does not hide the failures after it.
C13_AllFailuresCollected ==
  valOut # <<>> =>
     LET out == valOut[1] IN
       /\ out.passed <=> FailingRules = {}
       /\ Len(out.errors) = Cardinality(FailingRules)
       /\ \A i \in FailingRules :
            out.errors[Cardinality({k \in FailingRules : k <= i})] = ErrorMessage(valIn[2][i])

\* a call with an inactive rule that would fail followed by an active rule
\* that fails, or two failing active rules
C13_Witness ==
  /\ valOut # <<>>
  /\ Cardinality(FailingRules) = 2
  /\ ~valOut[1].passed

\* the runs whose rows the committed dataset holds
CommittedRuns ==
  {f.run : f \in db.schema[ConcDs]} \cup {r.run : r \in db.records[ConcDs]}

\* C14: with two ingestions of one dataset running at once, every committed
\* state holds the schema fields and records of one run only, and total_rows
\* is the number of stored records.
C14_NoMixedCommit ==
  /\ Cardinality(CommittedRuns) <= 1
  /\ db.datasets[ConcDs].total_rows = Cardinality(db.records[ConcDs])

\* the same property where the backend admits one writing transaction at a time
C14_SerialBackendHolds ==
  conc.backend = "serial" => C14_NoMixedCommit

\* C15: with no request in progress, every stored dataset has its catalog
\* asset and the asset's record_count equals the dataset's total_rows.
C15_AssetTracksRowCount ==
  pc = "idle" =>
     \A d \in DsIds :
        db.datasets[d].exists =>
           /\ db.assets[d].exists
           /\ db.assets[d].record_count = db.datasets[d].total_rows

\* the catalog column that mirrors a schema field
ColumnOf(f) ==
  [schema_field |-> <<f.run, f.column_order>>, name |-> f.column_name,
   data_type |-> f.column_type, is_nullable |-> f.is_nullable, stat_min |-> f.min_value,
   stat_max |-> f.max_value, stat_distinct |-> f.unique_count]

\* C16: after any sequence of schema-field creations, schema-field saves and
\* ingestions, the catalog columns of each dataset are exactly the mirrors of
\* its current schema fields, one per field, and no column name occurs twice
\* on one asset.
C16_ColumnsMirrorSchema ==
  \A d \in DsIds :
     /\ db.columns[d] = {ColumnOf(f) : f \in db.schema[d]}
     /\ Cardinality(db.columns[d]) = Cardinality(db.schema[d])
     /\ \A c1, c2 \in db.columns[d] : c1.name = c2.name => c1 = c2

\* a dataset re-ingested after an earlier report, whose schema then got a
\* field created outside process_csv
C16_Witness ==
  \E d \in DsIds :
     /\ ingested[d] # <<>>
     /\ \E f \in db.schema[d] : f.run >= 2
     /\ \E g \in db.schema[d] : g.run = 0
     /\ Cardinality(db.columns[d]) = 2

\* the snapshot create_metric_snapshot derives from a report
SnapshotOf(report) ==
  [total_records |-> report.total_records, valid_records |-> report.valid_records,
   invalid_records |-> report.invalid_records, duplicate_records |-> report.duplicate_records,
   uniqueness_percent |->
     IF report.total_records = 0 THEN <<>>
     ELSE <<((report.total_records - report.duplicate_records) * 100) \div report.total_records>>,
   quality_score |->
     IF report.total_records = 0 THEN <<>>
     ELSE <<(report.valid_records * 100) \div report.total_records>>]

\* C17: a step that adds a quality report to a dataset adds exactly one metric
\* snapshot to it, carrying the report's four counts, quality_score =
\* valid * 100 / total and uniqueness = (total - duplicate) * 100 / total (both
\* empty when total is 0), leaves the earlier snapshots as they were and sets
\* the asset's quality_score to the snapshot's; a step that adds no report,
\* such as the save of a stored report, adds no snapshot.
C17_OneSnapshotPerReport ==
  [][\A d \in DsIds :
       /\ Len(db'.reports[d]) = Len(db.reports[d]) + 1 =>
            /\ db'.snapshots[d] = Append(db.snapshots[d], SnapshotOf(Last(db'.reports[d])))
            /\ db'.assets[d].exists
            /\ db'.assets[d].quality_score = Last(db'.snapshots[d]).quality_score
       /\ Len(db'.reports[d]) = Len(db.reports[d]) => db'.snapshots[d] = db.snapshots[d]]_vars

\* a dataset with two reports and two snapshots whose first report was edited
\* and saved after its snapshot was taken
C17_Witness ==
  \E d \in DsIds :
     /\ Len(db.reports[d]) = 2
     /\ Len(db.snapshots[d]) = 2
     /\ db.reports[d][1].total_records # db.snapshots[d][1].total_records
     /\ db.snapshots[d][2].quality_score = <<95>>
     /\ db.snapshots[d][2].uniqueness_percent = <<98>>

\* C18: a successful process_csv leaves the dataset's reports as they were
\* at entry plus exactly one new report, that of this run, which is the one
\* the detail page shows; a failed run leaves the reports as they were; the
\* reports of other datasets are not touched.
C18_OneReportPerRun ==
  /\ pc = "returned" =>
       /\ Len(tx.reports[call.ds]) = Len(pre.reports) + 1
       /\ tx.reports[call.ds] = Append(pre.reports, Last(tx.reports[call.ds]))
       /\ Last(tx.reports[call.ds]).run = call.run
       /\ \A i \in DOMAIN pre.reports : pre.reports[i].run # call.run
       /\ ShownReport(tx, call.ds) = <<Last(tx.reports[call.ds])>>
       /\ \A d \in DsIds \ {call.ds} : tx.reports[d] = db.reports[d]
  /\ pc = "raised" =>
       /\ db.reports[call.ds] = pre.reports
       /\ tx.reports = db.reports
  /\ InFlight => db.reports[call.ds] = pre.reports

\* the second successful run on a dataset: its report follows the first one
C18_Witness ==
  /\ pc = "returned"
  /\ Len(pre.reports) = 1
  /\ Len(db.reports[call.ds]) = 2
  /\ db.reports[call.ds][1] = pre.reports[1]
  /\ db.reports[call.ds][1] # db.reports[call.ds][2]

\* the statements of process_csv in program order
Steps ==
  <<"detect", "parse", "infer", "delete_schema", "create_schema", "delete_records",
    "rows", "bulk_create", "save_dataset", "save_raw_file", "report", "return">>
StepRank(step) == CHOOSE i \in DOMAIN Steps : Steps[i] = step
Terminal == {"returned", "raised"}
Contents(store, d) ==
  [schema |-> store.schema[d], records |-> store.records[d],
   total_rows |-> store.datasets[d].total_rows, reports |-> store.reports[d]]

FailingRows(df) ==
  {i \in 1..Len(df.rows) : ~Serializable(RowData(df, infer_column_types(df), i))}

FileSparse ==
  Frame(<<"speed", "rpm">>, <<0, 1>>,
        << <<NaNCell, PyFloat(1000)>>, <<NaNCell, PyFloat(1200)>> >>)
StatFiles == {FileScenario, FileAllInt, FileIndexed, FileSparse}

\* the statements of the try block of calculate_statistics, in program order
StatSteps ==
  <<"to_numeric", "min_value", "max_value", "mean_value", "std_value",
    "unique_count", "null_count", "null_percentage">>
StatRank(step) == CHOOSE i \in DOMAIN StatSteps : StatSteps[i] = step

\* the statements the call executes: line 124 only for a numeric type,
\* lines 126-129 only when the coerced series is not empty
StatExecuted(df, j, column_type) ==
  LET full == calculate_statistics(df, j, column_type) IN
  {s \in Range(StatSteps) :
     /\ s = "to_numeric" => column_type \in {"INTEGER", "FLOAT"}
     /\ s \in {"min_value", "max_value", "mean_value", "std_value"} => full.min_value # <<>>}

\* the dict calculate_statistics returns when the statement `fault` raises
\* ("none": no statement raises): the keys stored before it; an absent key
\* is the empty sequence
StatsUntil(df, j, column_type, fault) ==
  LET full == calculate_statistics(df, j, column_type)
      done(s) == fault = "none" \/ StatRank(s) < StatRank(fault)
  IN [min_value |-> IF done("min_value") THEN full.min_value ELSE <<>>,
      max_value |-> IF done("max_value") THEN full.max_value ELSE <<>>,
      unique_count |-> IF done("unique_count") THEN <<full.unique_count>> ELSE <<>>]

\* DataSchema.objects.create(..., unique_count=stats.get('unique_count', 0))
FieldFrom(column_types, run, j, st) ==
  [column_name |-> column_types[j][1], column_type |-> column_types[j][2],
   column_order |-> j - 1, is_nullable |-> TRUE, min_value |-> st.min_value,
   max_value |-> st.max_value,
   unique_count |-> IF st.unique_count = <<>> THEN 0 ELSE st.unique_count[1], run |-> run]

\* process_csv has inferred the types of a parsed frame and deleted the old schema
StatsBegin ==
  /\ statRun.pc = "idle"
  /\ \E df \in StatFiles :
       statRun' = [pc |-> "create_schema", df |-> df,
                   column_types |-> infer_column_types(df), idx |-> 1,
                   faults |-> <<>>, schema |-> {}, records |-> <<>>]
  /\ UNCHANGED <<db, tx, disk, pc, call, local, result, pre, raw_file, ingested, hashVars,
                 catalogVars, validatorVars, conc, probe, jobReq, upload>>

\* the exception leaves calculate_statistics and process_csv
StatsCreateUncaught ==
  /\ statRun.pc = "create_schema"
  /\ statRun.idx <= Len(statRun.column_types)
  /\ \E fault \in StatExecuted(statRun.df, statRun.idx,
                               statRun.column_types[statRun.idx][2]) \cup {"none"} :
       IF fault = "none"
       THEN statRun' = [statRun EXCEPT
              !.schema = @ \cup {FieldFrom(statRun.column_types, 1, statRun.idx,
                                   StatsUntil(statRun.df, statRun.idx,
                                              statRun.column_types[statRun.idx][2], fault))},
              !.faults = Append(@, fault), !.idx = @ + 1]
       ELSE statRun' = [statRun EXCEPT !.pc = "raised", !.faults = Append(@, fault)]
  /\ UNCHANGED <<db, tx, disk, pc, call, local, result, pre, raw_file, ingested, hashVars,
                 catalogVars, validatorVars, conc, probe, jobReq, upload>>

\* one turn of the loop of lines 170-181: the statistics of column idx, in
\* which any statement may raise, and the creation of its schema field
StatsCreate ==
  /\ statRun.pc = "create_schema"
  /\ statRun.idx <= Len(statRun.column_types)
  /\ \E fault \in StatExecuted(statRun.df, statRun.idx,
                               statRun.column_types[statRun.idx][2]) \cup {"none"} :
       statRun' = [statRun EXCEPT
         !.schema = @ \cup {FieldFrom(statRun.column_types, 1, statRun.idx,
                              StatsUntil(statRun.df, statRun.idx,
                                         statRun.column_types[statRun.idx][2], fault))},
         !.faults = Append(@, fault), !.idx = @ + 1]
  /\ UNCHANGED <<db, tx, disk, pc, call, local, result, pre, raw_file, ingested, hashVars,
                 catalogVars, validatorVars, conc, probe, jobReq, upload>>

\* the loop is over: dataset.records.all().delete()
StatsDeleteRecords ==
  /\ statRun.pc = "create_schema"
  /\ statRun.idx > Len(statRun.column_types)
  /\ statRun' = [statRun EXCEPT !.pc = "rows"]
  /\ UNCHANGED <<db, tx, disk, pc, call, local, result, pre, raw_file, ingested, hashVars,
                 catalogVars, validatorVars, conc, probe, jobReq, upload>>

\* the row loop of lines 191-219
StatsRows ==
  /\ statRun.pc = "rows"
  /\ statRun' = [statRun EXCEPT
       !.pc = "bulk_create",
       !.records = RowLoop(statRun.df, statRun.column_types, 1,
                           Len(statRun.df.rows)).records_to_create]
  /\ UNCHANGED <<db, tx, disk, pc, call, local, result, pre, raw_file, ingested, hashVars,
                 catalogVars, validatorVars, conc, probe, jobReq, upload>>

NextStats == StatsBegin \/ StatsCreate \/ StatsDeleteRecords \/ StatsRows
SpecStats == Init /\ [][NextStats]_vars

\* the schema field process_csv created for column j
StatField(j) == CHOOSE f \in statRun.schema : f.column_order = j - 1
StatsStarted == statRun.pc # "idle"

OrderedLike(fields, df) ==
  /\ Cardinality(fields) = Len(df.columns)
  /\ {f.column_order : f \in fields} = 0..(Len(df.columns) - 1)
  /\ \A f \in fields : f.column_name = df.columns[f.column_order + 1]
  /\ \A f, g \in fields : f.column_name = g.column_name => f = g

\* C22: when process_csv has returned, the dataset's schema has one field
\* per column of the parsed file, numbered 0..k-1 in the file's column
\* order, with pairwise distinct names; and the committed schema of every
\* dataset that was ingested has that relation to the file ingested last.
C22_SchemaOrderedAndUnique ==
  /\ pc = "returned" => OrderedLike(tx.schema[call.ds], ThisFrame)
  /\ pc = "idle" =>
       \A d \in DsIds :
          ingested[d] # <<>> => OrderedLike(db.schema[d], ingested[d][1])

\* a two-column file was ingested into a dataset that already had a schema
C22_Witness ==
  /\ pc = "returned"
  /\ Len(ThisFrame.columns) = 2
  /\ pre.schema # {}
  /\ {<<f.column_order, f.column_name>> : f \in tx.schema[call.ds]} =
       {<<0, "speed">>, <<1, "rpm">>}

(* --------------- infer_column_types on parsed columns ------------------ *)
\* A field of the CSV text: what is written, its lower-cased form and what
\* pandas can read it as.
Token(text, lower, class) == [text |-> text, lower |-> lower, class |-> class]
Tokens ==
  {Token("", "", "missing"), Token("1", "1", "int"), Token("0", "0", "int"),
   Token("7", "7", "int"), Token("2.5", "2.5", "float"),
   Token("true", "true", "bool"), Token("False", "false", "bool"),
   Token("yes", "yes", "yesno"), Token("no", "no", "yesno"),
   Token("2024-01-01", "2024-01-01", "date"), Token("abc", "abc", "text")}
MaxColumnLen == 2
TokenColumns == UNION {[1..n -> Tokens] : n \in 1..MaxColumnLen}

NonMissing(tokens) == SelectSeq(tokens, LAMBDA t : t.class # "missing")
AllOf(tokens, classes) == \A i \in DOMAIN tokens : tokens[i].class \in classes

\* the dtype pd.read_csv gives the column (line 157): int64 for whole
\* numbers without a gap, float64 for numbers with a fraction or a gap and
\* for a column without any value, bool for true/false without a gap,
\* object otherwise
ReadDtype(tokens) ==
  LET nn == NonMissing(tokens) IN
  IF Len(nn) = 0 THEN "float64"
  ELSE IF AllOf(nn, {"int"}) THEN (IF Len(nn) = Len(tokens) THEN "int64" ELSE "float64")
  ELSE IF AllOf(nn, {"int", "float"}) THEN "float64"
  ELSE IF AllOf(nn, {"bool"}) /\ Len(nn) = Len(tokens) THEN "bool"
  ELSE "object"

\* pd.to_numeric(non_null_series) of line 88 returns: a bool column is
\* numeric already, an object column of Python bools (true/false with a
\* gap) converts, an object column holding a string that is no number
\* raises ValueError
ToNumericReturns(tokens) ==
  \/ ReadDtype(tokens) = "bool"
  \/ ReadDtype(tokens) = "object" /\ AllOf(NonMissing(tokens), {"bool"})

\* pd.to_datetime(non_null_series) of line 101 returns: every string is a
\* date; a bare number next to dates is accepted by the element-wise parser
\* of older pandas and refused by the format-inferring one (lenient)
ToDatetimeReturns(tokens, lenient) ==
  LET nn == NonMissing(tokens) IN
  /\ \E i \in DOMAIN nn : nn[i].class = "date"
  /\ IF lenient THEN AllOf(nn, {"date", "int", "float"}) ELSE AllOf(nn, {"date"})

BooleanWords == {"true", "false", "1", "0", "yes", "no"}

\* lines 66-113 for one column
InferColumn(tokens, lenient) ==
  LET nn == NonMissing(tokens)
      dtype == ReadDtype(tokens)
  IN IF Len(nn) = 0 THEN "STRING"
     ELSE IF dtype = "int64" THEN "INTEGER"
     ELSE IF dtype = "float64" THEN "FLOAT"
     ELSE IF ToNumericReturns(tokens)
          THEN (IF \E i \in DOMAIN nn : nn[i].class = "float" THEN "FLOAT" ELSE "INTEGER")
     ELSE IF ToDatetimeReturns(tokens, lenient) THEN "DATETIME"
     ELSE IF {nn[i].lower : i \in DOMAIN nn} \subseteq BooleanWords THEN "BOOLEAN"
     ELSE "STRING"

\* one column of a parsed file goes through infer_column_types
InferCall ==
  /\ probe.fn = "none"
  /\ \E tokens \in TokenColumns, lenient \in BOOLEAN :
       probe' = [fn |-> "infer_column_types", tokens |-> tokens, lenient |-> lenient,
                 out |-> InferColumn(tokens, lenient)]
  /\ UNCHANGED <<db, tx, disk, pc, call, local, result, pre, raw_file, ingested, hashVars,
                 catalogVars, validatorVars, conc, statRun, jobReq, upload>>

NextInfer == InferCall
SpecInfer == Init /\ [][NextInfer]_vars

COLUMN_TYPES == {"INTEGER", "FLOAT", "STRING", "DATETIME", "BOOLEAN"}

\* the priority chain on the non-null values of the column as the frame
\* holds them: whole numbers are integers only in a column without a gap
ChainType(tokens, lenient) ==
  LET nn == NonMissing(tokens) IN
  IF Len(nn) = 0 THEN "STRING"
  ELSE IF AllOf(nn, {"int"}) /\ Len(nn) = Len(tokens) THEN "INTEGER"
  ELSE IF AllOf(nn, {"int", "float"}) THEN "FLOAT"
  ELSE IF ToDatetimeReturns(tokens, lenient) THEN "DATETIME"
  ELSE IF {nn[i].lower : i \in DOMAIN nn} \subseteq BooleanWords THEN "BOOLEAN"
  ELSE "STRING"

\* C23: the inferred type of every column is the first match of the chain
\* all-null STRING, integers INTEGER, numbers FLOAT, dates DATETIME, words
\* of {true, false, 1, 0, yes, no} BOOLEAN, else STRING; so a column of 1
\* and 0 is INTEGER, a column of true/false/yes/no words is BOOLEAN, and
\* the type is always one of the five declared ones.
C23_PriorityChain ==
  probe.fn = "infer_column_types" =>
    /\ probe.out \in COLUMN_TYPES
    /\ probe.out = ChainType(probe.tokens, probe.lenient)
    /\ AllOf(probe.tokens, {"bool", "yesno"}) => probe.out = "BOOLEAN"

(* ---------------- detect_encoding and detect_delimiter ----------------- *)
\* confidence of chardet in hundredths; line 35 compares with 0.7
ConfidenceThreshold == 70
Confidences == {0, 50, 70, 71, 100}
NoEncoding == "None"
Encodings == {"ascii", "SHIFT_JIS", "utf-8"}
\* chardet.detect: an encoding with its confidence, or nothing detected,
\* which chardet reports as encoding None with confidence 0.0
ChardetResults ==
  {[encoding |-> e, confidence |-> c] : e \in Encodings, c \in Confidences \ {0}}
    \cup {[encoding |-> NoEncoding, confidence |-> 0]}

\* detect_encoding: `readable` is whether open and read succeed
DetectEncodingInclusive(readable, detected) ==
  IF ~readable THEN "utf-8"
  ELSE IF detected.confidence >= ConfidenceThreshold THEN detected.encoding ELSE "utf-8"

detect_encoding(readable, detected) ==
  IF ~readable THEN "utf-8"
  ELSE IF detected.confidence > ConfidenceThreshold THEN detected.encoding ELSE "utf-8"

\* the candidates in the order of the list of line 47
Delimiters == <<",", ";", "\t", "|">>
LineChars == {",", ";", "\t", "|", "a"}
MaxLineLen == 3
FirstLines == UNION {[1..n -> LineChars] : n \in 0..MaxLineLen}
\* first_line.count(delimiter)
CountOf(first_line, c) == Cardinality({i \in DOMAIN first_line : first_line[i] = c})

\* max() keeping the last of the candidates with the highest count
DetectDelimiterLastMax(readable, first_line) ==
  IF ~readable THEN ","
  ELSE LET count(k) == CountOf(first_line, Delimiters[k])
           best == CHOOSE k \in DOMAIN Delimiters :
                     /\ \A m \in DOMAIN Delimiters : count(m) <= count(k)
                     /\ \A m \in DOMAIN Delimiters : count(m) = count(k) => m <= k
       IN IF count(best) > 0 THEN Delimiters[best] ELSE ","

\* detect_delimiter: `readable` is whether the file opens and its first line
\* decodes in the given encoding; max() over the dict returns the first key,
\* in insertion order, whose count is the highest
detect_delimiter(readable, first_line) ==
  IF ~readable THEN ","
  ELSE LET count(k) == CountOf(first_line, Delimiters[k])
           best == CHOOSE k \in DOMAIN Delimiters :
                     /\ \A m \in DOMAIN Delimiters : count(m) <= count(k)
                     /\ \A m \in 1..(k - 1) : count(m) < count(k)
       IN IF count(best) > 0 THEN Delimiters[best] ELSE ","

\* line 153: encoding = self.detect_encoding(file_path)
DetectEncodingCall ==
  /\ probe.fn = "none"
  /\ \E readable \in BOOLEAN, detected \in ChardetResults :
       probe' = [fn |-> "detect_encoding", readable |-> readable, detected |-> detected,
                 encoding |-> detect_encoding(readable, detected)]
  /\ UNCHANGED <<db, tx, disk, pc, call, local, result, pre, raw_file, ingested, hashVars,
                 catalogVars, validatorVars, conc, statRun, jobReq, upload>>

\* line 154: delimiter = self.detect_delimiter(file_path, encoding); a file
\* that could be read may still fail to decode in the detected encoding
DetectDelimiterCall ==
  /\ probe.fn = "detect_encoding"
  /\ \E decodes \in BOOLEAN, first_line \in FirstLines :
       probe' = [fn |-> "detect_delimiter", readable |-> probe.readable /\ decodes,
                 first_line |-> first_line, encoding |-> probe.encoding,
                 delimiter |-> detect_delimiter(probe.readable /\ decodes, first_line)]
  /\ UNCHANGED <<db, tx, disk, pc, call, local, result, pre, raw_file, ingested, hashVars,
                 catalogVars, validatorVars, conc, statRun, jobReq, upload>>

NextDetect == DetectEncodingCall \/ DetectDelimiterCall
SpecDetect == Init /\ [][NextDetect]_vars

\* C24: the detected delimiter is always one of the four candidates; for a
\* readable first line with some candidate in it, it is a candidate with the
\* highest count and every candidate before it in the order comma,
\* semicolon, TAB, pipe has a strictly lower count; it is the comma when no
\* candidate occurs and when the file cannot be read or decoded; and the
\* call changes nothing of the stored data.
C24_DelimiterIsFirstMaximum ==
  /\ [](probe.fn = "detect_delimiter" =>
          LET count(k) == CountOf(probe.first_line, Delimiters[k]) IN
          /\ \E k \in DOMAIN Delimiters : probe.delimiter = Delimiters[k]
          /\ ~probe.readable => probe.delimiter = ","
          /\ (probe.readable /\ \A k \in DOMAIN Delimiters : count(k) = 0) =>
               probe.delimiter = ","
          /\ (probe.readable /\ \E k \in DOMAIN Delimiters : count(k) > 0) =>
               \E k \in DOMAIN Delimiters :
                  /\ probe.delimiter = Delimiters[k]
                  /\ \A m \in DOMAIN Delimiters : count(m) <= count(k)
                  /\ \A m \in 1..(k - 1) : count(m) < count(k))
  /\ [][probe'.fn = "detect_delimiter" => UNCHANGED <<db, tx, disk, raw_file>>]_vars

\* semicolon and pipe both occur once and the comma never: the semicolon wins
C24_Witness ==
  /\ probe.fn = "detect_delimiter"
  /\ probe.readable
  /\ probe.first_line = <<"a", "|", ";">>
  /\ probe.delimiter = ";"

\* C25: the encoding returned is the detected one exactly when the file
\* could be read, something was detected and the confidence is above 0.7,
\* and is utf-8 in every other case; it is never the null encoding.
C25_EncodingFallsBackToUtf8 ==
  probe.fn = "detect_encoding" =>
    /\ probe.encoding # NoEncoding
    /\ probe.encoding \in Encodings
    /\ IF probe.readable /\ probe.detected.confidence > ConfidenceThreshold
       THEN probe.encoding = probe.detected.encoding
       ELSE probe.encoding = "utf-8"

\* Shift_JIS detected with confidence exactly 0.7 is not accepted
C25_Witness ==
  /\ probe.fn = "detect_encoding"
  /\ probe.readable
  /\ probe.detected = [encoding |-> "SHIFT_JIS", confidence |-> 70]
  /\ probe.encoding = "utf-8"

(* ------------------- validate_pattern on text -------------------------- *)
\* str(value) as a sequence of characters over a two-letter alphabet
TextChars == {"1", "a"}
MaxTextLen == 3
Texts == UNION {[1..n -> TextChars] : n \in 0..MaxTextLen}

\* A compiled pattern: items matched one after the other, each a set of
\* characters taken once or (star) any number of times, and whether the
\* pattern ends with the anchor $.  `ok` is FALSE for text re.compile rejects.
Item(chars, star) == [chars |-> chars, star |-> star]
Regex(source, ok, items, anchored) ==
  [source |-> source, ok |-> ok, items |-> items, anchored |-> anchored]
Digit == {"1"}
Patterns ==
  {Regex("\\d+", TRUE, <<Item(Digit, FALSE), Item(Digit, TRUE)>>, FALSE),
   Regex("\\d+$", TRUE, <<Item(Digit, FALSE), Item(Digit, TRUE)>>, TRUE),
   Regex("a", TRUE, <<Item({"a"}, FALSE)>>, FALSE),
   Regex("a*", TRUE, <<Item({"a"}, TRUE)>>, FALSE),
   Regex("1a", TRUE, <<Item({"1"}, FALSE), Item({"a"}, FALSE)>>, FALSE),
   Regex("[", FALSE, <<>>, FALSE),
   Regex("(", FALSE, <<>>, FALSE)}
\* config.get('pattern'): a pattern, the empty string or no key at all
EmptyPattern == Regex("", TRUE, <<>>, FALSE)
PatternConfigs == {<<p>> : p \in Patterns \cup {EmptyPattern}} \cup {<<>>}
\* `if pattern:` is false for no pattern and for the empty one
Falsy(pattern) == pattern = <<>> \/ pattern[1].source = ""

\* the positions a match of items[i..] that starts at position k can end before
RECURSIVE Ends(_, _, _, _)
Ends(items, text, i, k) ==
  IF i > Len(items) THEN {k}
  ELSE IF items[i].star
       THEN UNION {Ends(items, text, i + 1, e) :
                     e \in {e \in k..(Len(text) + 1) :
                              \A m \in k..(e - 1) : text[m] \in items[i].chars}}
       ELSE IF k <= Len(text) /\ text[k] \in items[i].chars
            THEN Ends(items, text, i + 1, k + 1)
            ELSE {}

\* re.match: a match that starts at position 0 and ends anywhere, at the
\* end of the text only if the pattern says so
re_match(regex, text) ==
  LET ends == Ends(regex.items, text, 1, 1) IN
  IF regex.anchored THEN Len(text) + 1 \in ends ELSE ends # {}
\* re.fullmatch: the match must end at the end of the text
re_fullmatch(regex, text) == Len(text) + 1 \in Ends(regex.items, text, 1, 1)

\* validate_pattern on str(value) = text: a falsy pattern passes, re.error
\* of a malformed pattern is caught and fails
validate_pattern_text(text, pattern) ==
  IF Falsy(pattern) THEN TRUE
  ELSE IF ~pattern[1].ok THEN FALSE
  ELSE re_match(pattern[1], text)

\* one call of validate_pattern
PatternCall ==
  /\ probe.fn = "none"
  /\ \E text \in Texts, pattern \in PatternConfigs :
       probe' = [fn |-> "validate_pattern", text |-> text, pattern |-> pattern,
                 out |-> validate_pattern_text(text, pattern)]
  /\ UNCHANGED <<db, tx, disk, pc, call, local, result, pre, raw_file, ingested, hashVars,
                 catalogVars, validatorVars, conc, statRun, jobReq, upload>>

NextPattern == PatternCall
SpecPattern == Init /\ [][NextPattern]_vars

\* C26: a PATTERN rule with a configured pattern passes only when the whole
\* string form of the value matches the pattern, from position 0 to the end
\* of the string, and fails when the pattern is malformed.
C26_PatternMatchesWholeValue ==
  (probe.fn = "validate_pattern" /\ ~Falsy(probe.pattern)) =>
    /\ ~probe.pattern[1].ok => ~probe.out
    /\ probe.out => re_fullmatch(probe.pattern[1], probe.text)

(* ----------------------- validate_range alone -------------------------- *)
\* text that float() accepts, such as '5'
NumericStr(n) == [kind |-> "numstr", n |-> n]
RangeNumbers == {-1, 0, 1, 5, 9, 10, 11}
\* the values a record's JSON data can hold under a column; NaNCell stands
\* for float('nan') and for the text 'nan', which float() turns into it
RangeValues ==
  {PyNone, NaNCell, EmptyStr, PyStr(1)}
    \cup {PyInt(n) : n \in RangeNumbers} \cup {NumericStr(n) : n \in {0, 11}}
\* rule_config with each bound present or absent
RangeConfigs ==
  {[min |-> lo, max |-> hi, pattern |-> <<>>] :
     lo \in {<<>>, <<0>>, <<5>>}, hi \in {<<>>, <<5>>, <<10>>}}

\* one call of validate_range
RangeCall ==
  /\ probe.fn = "none"
  /\ \E value \in RangeValues, config \in RangeConfigs :
       probe' = [fn |-> "validate_range", value |-> value, config |-> config,
                 out |-> validate_range(value, config)]
  /\ UNCHANGED <<db, tx, disk, pc, call, local, result, pre, raw_file, ingested, hashVars,
                 catalogVars, validatorVars, conc, statRun, jobReq, upload>>

NextRange == RangeCall
SpecRange == Init /\ [][NextRange]_vars

\* float(value) returns: not for None and not for text that is no number
Coerces(value) == value.kind \notin {"none", "str"}
\* n >= b and n <= b for the coerced number; both are false for NaN
AtLeast(value, b) == value.kind # "nan" /\ value.n >= b
AtMost(value, b) == value.kind # "nan" /\ value.n <= b

\* C27: a RANGE rule passes exactly when the value coerces to a number n
\* with (min absent or n >= min) and (max absent or n <= max).
C27_RangeInclusive ==
  probe.fn = "validate_range" =>
    (probe.out <=>
       /\ Coerces(probe.value)
       /\ (probe.config.min = <<>> \/ AtLeast(probe.value, probe.config.min[1]))
       /\ (probe.config.max = <<>> \/ AtMost(probe.value, probe.config.max[1])))

(* ------------------------------ run_job -------------------------------- *)
MaxJobRuns == 2
\* a JobRun: status, whether finished_at and output_dataset are set
JobRunRow(status, finished, output) ==
  [status |-> status, finished_at |-> finished, output_dataset |-> output]
\* the early error returns of run_job after the run is RUNNING, with their
\* response status: lines 753-758, 780-785, 789-794, 799-804, 842-847,
\* 856-861, 864-869
EarlyReturns ==
  {<<"papermill not installed", 503>>, <<"script not set", 400>>,
   <<"cannot load script", 500>>, <<"entry function not found", 400>>,
   <<"empty output", 400>>, <<"unsupported return value", 400>>,
   <<"output not found", 500>>}
JobFrame ==
  <<db, tx, disk, pc, call, local, result, pre, raw_file, ingested, hashVars,
    catalogVars, validatorVars, conc, statRun, probe, upload>>

\* the stored rows, the run object of the request in progress, the
\* statuses its row has had, and the response
JobIdle(rows) ==
  [pc |-> "idle", rows |-> rows, run |-> JobRunRow("none", FALSE, FALSE),
   seen |-> <<>>, response |-> 0]
\* run.save(): the row of this request takes the object's fields, unless
\* the database raises
Saved(j, run) ==
  [j EXCEPT !.rows[Len(j.rows)] = run, !.run = run, !.seen = Append(@, run.status)]

\* lines 733-741: a request without its parameters, or for a job or raw file
\* that does not exist, is answered before any JobRun exists; otherwise the
\* JobRun is created PENDING
JobCreate ==
  /\ jobReq.pc = "idle"
  /\ Len(jobReq.rows) < MaxJobRuns
  /\ \/ \E code \in {400, 500} :
          jobReq' = [jobReq EXCEPT !.pc = "rejected", !.response = code]
     \/ jobReq' = [jobReq EXCEPT !.pc = "created",
                                 !.rows = Append(@, JobRunRow("PENDING", FALSE, FALSE)),
                                 !.run = JobRunRow("PENDING", FALSE, FALSE),
                                 !.seen = <<"PENDING">>]
  /\ UNCHANGED JobFrame

\* lines 742-744
JobSetRunning ==
  /\ jobReq.pc = "created"
  /\ LET run == [jobReq.run EXCEPT !.status = "RUNNING"] IN
       \/ jobReq' = [Saved(jobReq, run) EXCEPT !.pc = "execute"]
       \/ jobReq' = [jobReq EXCEPT !.pc = "handler", !.run = run]
  /\ UNCHANGED JobFrame

\* one of the early error returns: FAILED, finished_at, save, return
JobEarlyReturn ==
  /\ jobReq.pc = "execute"
  /\ \E early \in EarlyReturns :
       LET run == [jobReq.run EXCEPT !.status = "FAILED", !.finished_at = TRUE] IN
         \/ jobReq' = [Saved(jobReq, run) EXCEPT !.pc = "returned", !.response = early[2]]
         \/ jobReq' = [jobReq EXCEPT !.pc = "handler", !.run = run]
  /\ UNCHANGED JobFrame

\* the notebook, the script, the creation of the output dataset or
\* process_csv raises (lines 772-888)
JobRaise ==
  /\ jobReq.pc = "execute"
  /\ jobReq' = [jobReq EXCEPT !.pc = "handler"]
  /\ UNCHANGED JobFrame

\* process_csv returned: lines 890-894
JobSuccess ==
  /\ jobReq.pc = "execute"
  /\ LET run == JobRunRow("SUCCESS", TRUE, TRUE) IN
       \/ jobReq' = [Saved(jobReq, run) EXCEPT !.pc = "returned", !.response = 200]
       \/ jobReq' = [jobReq EXCEPT !.pc = "handler", !.run = run]
  /\ UNCHANGED JobFrame

\* lines 895-904: FAILED, finished_at and save on the object as it is; an
\* exception of that save is swallowed
JobHandler ==
  /\ jobReq.pc = "handler"
  /\ LET run == [jobReq.run EXCEPT !.status = "FAILED", !.finished_at = TRUE] IN
       \/ jobReq' = [Saved(jobReq, run) EXCEPT !.pc = "returned", !.response = 500]
       \/ jobReq' = [jobReq EXCEPT !.pc = "returned", !.run = run, !.response = 500]
  /\ UNCHANGED JobFrame

\* the response is sent; the next request may come
JobDone ==
  /\ jobReq.pc \in {"returned", "rejected"}
  /\ jobReq' = JobIdle(jobReq.rows)
  /\ UNCHANGED JobFrame

NextRunJob ==
  \/ JobCreate \/ JobSetRunning \/ JobEarlyReturn \/ JobRaise \/ JobSuccess
  \/ JobHandler \/ JobDone
SpecRunJob == Init /\ [][NextRunJob]_vars

\* C28: when a run_job request that created a JobRun returns, the run's
\* stored status is SUCCESS or FAILED with finished_at set, it went
\* PENDING, RUNNING and then that one terminal status, and output_dataset
\* is set exactly when the status is SUCCESS; the same holds of every
\* JobRun of a request that has returned.
C28_JobRunEndsTerminal ==
  /\ jobReq.pc = "returned" =>
       LET row == jobReq.rows[Len(jobReq.rows)] IN
       /\ row.status \in {"SUCCESS", "FAILED"}
       /\ row.finished_at
       /\ row.output_dataset <=> row.status = "SUCCESS"
       /\ jobReq.seen \in {<<"PENDING", "RUNNING", "SUCCESS">>,
                           <<"PENDING", "RUNNING", "FAILED">>}
  /\ jobReq.pc = "idle" =>
       \A i \in DOMAIN jobReq.rows :
          /\ jobReq.rows[i].status \in {"SUCCESS", "FAILED"}
          /\ jobReq.rows[i].finished_at
          /\ jobReq.rows[i].output_dataset <=> jobReq.rows[i].status = "SUCCESS"

(* ----------------- upload_csv with several files ------------------------ *)
MaxFiles == 3
UploadFrame ==
  <<db, tx, disk, pc, call, local, result, pre, raw_file, ingested, hashVars,
    catalogVars, validatorVars, conc, statRun, probe, jobReq>>

\* the rows the handling of file i creates: always its Dataset and
\* RawDataFile and, once process_csv ran, a schema and records; with a
\* preprocessing job also the JobRun, the output dataset and its raw file
ObjectsOf(i, use_preprocess) ==
  {<<kind, i>> : kind \in {"Dataset", "RawDataFile", "Schema", "Records"}}
    \cup (IF use_preprocess
          THEN {<<kind, i>> : kind \in {"JobRun", "OutputDataset", "OutputRawFile"}}
          ELSE {})

\* the POST arrives with n files (lines 33, 52, 133-138)
UpStart ==
  /\ upload.pc = "idle"
  /\ \E n \in 1..MaxFiles, use_preprocess \in BOOLEAN :
       upload' = [pc |-> "file", n |-> n, use_preprocess |-> use_preprocess, idx |-> 1,
                  committed |-> {}, working |-> {}, outcomes |-> <<>>]
  /\ UNCHANGED UploadFrame

\* lines 149-172: the atomic block of file idx opens, Dataset and RawDataFile
UpOpen ==
  /\ upload.pc = "file"
  /\ upload.idx <= upload.n
  /\ upload' = [upload EXCEPT
       !.working = {<<"Dataset", upload.idx>>, <<"RawDataFile", upload.idx>>},
       !.pc = IF upload.use_preprocess THEN "job" ELSE "process"]
  /\ UNCHANGED UploadFrame

\* line 183: the JobRun of the file
UpJobRun ==
  /\ upload.pc = "job"
  /\ upload' = [upload EXCEPT !.working = @ \cup {<<"JobRun", upload.idx>>},
                              !.pc = "output"]
  /\ UNCHANGED UploadFrame

\* lines 185-301: the job ran and its output dataset and raw file are created
UpOutput ==
  /\ upload.pc = "output"
  /\ upload' = [upload EXCEPT
       !.working = @ \cup {<<"OutputDataset", upload.idx>>, <<"OutputRawFile", upload.idx>>},
       !.pc = "process"]
  /\ UNCHANGED UploadFrame

\* lines 176-180 and 304-312: process_csv returned
UpProcess ==
  /\ upload.pc = "process"
  /\ upload' = [upload EXCEPT
       !.working = @ \cup {<<"Schema", upload.idx>>, <<"Records", upload.idx>>},
       !.pc = "commit"]
  /\ UNCHANGED UploadFrame

\* the atomic block of the file is left normally: its rows are committed
UpCommit ==
  /\ upload.pc = "commit"
  /\ upload' = [upload EXCEPT !.committed = @ \cup upload.working, !.working = {},
                              !.outcomes = Append(@, "ok"), !.idx = @ + 1, !.pc = "file"]
  /\ UNCHANGED UploadFrame

\* one atomic block around the whole loop: a failure undoes every file and
\* ends the request
UpFailWholeRequest ==
  /\ \/ upload.pc = "file" /\ upload.idx <= upload.n
     \/ upload.pc \in {"job", "output", "process", "commit"}
  /\ upload' = [upload EXCEPT !.committed = {}, !.working = {},
                              !.outcomes = Append(@, "error"), !.pc = "done"]
  /\ UNCHANGED UploadFrame

\* any statement of the file's try block raises: the atomic block rolls
\* back and lines 314-319 record the error and go on to the next file
UpFail ==
  /\ \/ upload.pc = "file" /\ upload.idx <= upload.n
     \/ upload.pc \in {"job", "output", "process", "commit"}
  /\ upload' = [upload EXCEPT !.working = {}, !.outcomes = Append(@, "error"),
                              !.idx = @ + 1, !.pc = "file"]
  /\ UNCHANGED UploadFrame

\* lines 321-333: the loop is over
UpFinish ==
  /\ upload.pc = "file"
  /\ upload.idx > upload.n
  /\ upload' = [upload EXCEPT !.pc = "done"]
  /\ UNCHANGED UploadFrame

NextUpload ==
  \/ UpStart \/ UpOpen \/ UpJobRun \/ UpOutput \/ UpProcess \/ UpCommit \/ UpFail
  \/ UpFinish
SpecUpload == Init /\ [][NextUpload]_vars

\* C29: in an upload of several files nothing created for a file that
\* failed, or for the file still in progress, is committed; every file whose
\* block was left normally has all its rows committed; a failure of file i
\* changes nothing that is committed, and nothing committed is ever removed;
\* and when the request ends every file has been handled, whatever failed
\* before it.
C29_FilesAreIndependent ==
  /\ [](/\ \A o \in upload.committed :
             o[2] <= Len(upload.outcomes) /\ upload.outcomes[o[2]] = "ok"
        /\ \A i \in DOMAIN upload.outcomes :
             upload.outcomes[i] = "ok" =>
                ObjectsOf(i, upload.use_preprocess) \subseteq upload.committed
        /\ upload.pc = "done" => Len(upload.outcomes) = upload.n)
  /\ [][/\ upload.pc # "idle" => upload.committed \subseteq upload'.committed
        /\ (Len(upload'.outcomes) > Len(upload.outcomes)
              /\ upload'.outcomes[Len(upload'.outcomes)] = "error") =>
             upload'.committed = upload.committed]_vars

\* three files with a preprocessing job: the second failed after its
\* JobRun and output dataset had been created, the first and the third are
\* committed in full
C29_Witness ==
  /\ upload.pc = "done"
  /\ upload.use_preprocess
  /\ upload.outcomes = <<"ok", "error", "ok">>
  /\ upload.committed = ObjectsOf(1, TRUE) \cup ObjectsOf(3, TRUE)

\* the rules of a list whose type has a validator method
WithValidator(rules) ==
  SelectSeq(rules, LAMBDA r : r.rule_type \notin {"UNIQUE", "CUSTOM"})

\* C30: the verdict and the failure list of validate_record are those of
\* the same rule list with its UNIQUE and CUSTOM rules taken out, and no
\* failure message ever names a UNIQUE or CUSTOM rule.
C30_UnhandledRulesSkipped ==
  valIn # <<>> =>
    /\ valOut[1] = validate_record(valIn[1], WithValidator(valIn[2]))
    /\ \A i \in DOMAIN valOut[1].errors :
         valOut[1].errors[i][2] \notin {"UNIQUE", "CUSTOM"}

\* a record without speed checked against an active CUSTOM rule and an
\* active NOT_NULL rule on speed: it fails, with the NOT_NULL message only
C30_Witness ==
  /\ valIn # <<>>
  /\ valIn[1] = << <<"speed", PyNone>> >>
  /\ Len(valIn[2]) = 2
  /\ valIn[2][1] = [column_name |-> "speed", rule_type |-> "CUSTOM",
                    rule_config |-> RuleConfigs["CUSTOM"], is_active |-> TRUE]
  /\ valIn[2][2].rule_type = "NOT_NULL" /\ valIn[2][2].is_active
  /\ valIn[2][2].column_name = "speed"
  /\ ~valOut[1].passed
  /\ Len(valOut[1].errors) = 1

====
